---- MODULE Spec2Model ----
(***************************************************************************)
(* The /agent orchestrator of the Text-to-SQL service: routing decision    *)
(* (remote tool_router with local fallback), tool dispatch through         *)
(* execute_tool, the one-shot SQL self-correction retry and the typed      *)
(* AgentResponse.  Each request is an asyncio task; `loop` names the task  *)
(* the event loop is running, and a task gives the loop back only where    *)
(* the code awaits a remote skill call.                                    *)
(***************************************************************************)
EXTENDS Integers, Sequences, FiniteSets, TLC

(***************************************************************************)
(* Text helpers: str.lower() and the `in` substring test of Python.        *)
(***************************************************************************)
\* str.lower() on one character (the ASCII letters)
LowerChar(c) ==
    CASE c = "A" -> "a" [] c = "B" -> "b" [] c = "C" -> "c" [] c = "D" -> "d"
      [] c = "E" -> "e" [] c = "F" -> "f" [] c = "G" -> "g" [] c = "H" -> "h"
      [] c = "I" -> "i" [] c = "J" -> "j" [] c = "K" -> "k" [] c = "L" -> "l"
      [] c = "M" -> "m" [] c = "N" -> "n" [] c = "O" -> "o" [] c = "P" -> "p"
      [] c = "Q" -> "q" [] c = "R" -> "r" [] c = "S" -> "s" [] c = "T" -> "t"
      [] c = "U" -> "u" [] c = "V" -> "v" [] c = "W" -> "w" [] c = "X" -> "x"
      [] c = "Y" -> "y" [] c = "Z" -> "z"
      [] OTHER -> c

RECURSIVE Lower(_)
Lower(s) ==
    IF Len(s) = 0 THEN ""
    ELSE LowerChar(SubSeq(s, 1, 1)) \o Lower(SubSeq(s, 2, Len(s)))

Contains(s, sub) ==
    \E i \in 1..(Len(s) - Len(sub) + 1) : SubSeq(s, i, i + Len(sub) - 1) = sub

\* sub in s.lower(), character by character
ContainsLower(s, sub) ==
    \E i \in 1..(Len(s) - Len(sub) + 1) :
        \A j \in 1..Len(sub) :
            LowerChar(SubSeq(s, i + j - 1, i + j - 1)) = SubSeq(sub, j, j)

(***************************************************************************)
(* Requests and their inputs.  A context is a mapping whose keys are a     *)
(* subset of query, headers, rows, original_question.                      *)
(***************************************************************************)
Requests == {1, 2}

Sequential == {1}

Tokens == [r \in Requests |-> IF r = 1 THEN "token-a" ELSE "token-b"]

Messages == {"How many customers per country?", "run it"}

QueryValues == {"", "SELECT 1"}

HeaderValues == {<<>>, <<"1">>}

RowValues == {<<(<<1>>)>>}

QuestionValues == {"customers per country"}

Opt(S) == {[set |-> FALSE]} \cup {[set |-> TRUE, v |-> x] : x \in S}

Ctx(q, h, w, o) ==
    LET keys == (IF q.set THEN {"query"} ELSE {})
                \cup (IF h.set THEN {"headers"} ELSE {})
                \cup (IF w.set THEN {"rows"} ELSE {})
                \cup (IF o.set THEN {"original_question"} ELSE {})
    IN  [k \in keys |-> CASE k = "query" -> q.v
                          [] k = "headers" -> h.v
                          [] k = "rows" -> w.v
                          [] k = "original_question" -> o.v]

Contexts ==
    {Ctx(q, h, w, o) : q \in Opt(QueryValues), h \in Opt(HeaderValues),
                       w \in Opt(RowValues), o \in Opt(QuestionValues)}

EmptyContext == Ctx([set |-> FALSE], [set |-> FALSE], [set |-> FALSE], [set |-> FALSE])

\* Python truthiness of context.get(k): a missing key, "" and [] are falsy.
Truthy(context, k) ==
    /\ k \in DOMAIN context
    /\ IF k \in {"query", "original_question"} THEN context[k] # "" ELSE context[k] # <<>>

(***************************************************************************)
(* models.py                                                               *)
(***************************************************************************)
ToolResponseType == {"sql_query", "query_results", "chart_type", "chart_image", "error"}

ToolRouterDecision(tool, arguments) ==
    [kind |-> "decision", tool |-> tool, arguments |-> arguments]

AgentResponse(response_type, data, tool_used, success) ==
    [response_type |-> response_type, data |-> data, tool_used |-> tool_used,
     success |-> success]

NoDecision == [kind |-> "none"]

NoResponse == AgentResponse("none", <<>>, "", FALSE)

(***************************************************************************)
(* kernel.py: one remote skill call.  The environment answers a call with  *)
(* a transport failure or an HTTP response (status, body).                 *)
(***************************************************************************)
JsonDict(d) == [shape |-> "dict", d |-> d]

JsonList == [shape |-> "list", d |-> <<>>]

NotJson == [shape |-> "invalid", d |-> <<>>]

HttpResponse(status, text, json) ==
    [kind |-> "http", status |-> status, text |-> text, json |-> json]

TransportError == [kind |-> "transport", status |-> 0, text |-> "All connection attempts failed",
                   json |-> NotJson]

KernelOk(json) == [kind |-> "ok", type |-> "", status |-> 200, text |-> "", json |-> json]

Raised(type, status, text) ==
    [kind |-> "exc", type |-> type, status |-> status, text |-> text, json |-> NotJson]

\* HttpKernel.run after `await self.session.post(...)` has answered.
HttpKernel_run(http) ==
    IF http.kind = "transport" THEN Raised("ConnectError", 0, http.text)
    ELSE IF http.status >= 400 THEN Raised("KernelException", http.status, http.text)
    ELSE IF http.json.shape = "invalid"
         THEN Raised("JSONDecodeError", 0, "Expecting value: line 1 column 1 (char 0)")
    ELSE KernelOk(http.json)

\* dict.get(key, default) on a JSON object
Get(d, key, default) == IF key \in DOMAIN d THEN d[key] ELSE default

\* no call has been made
NoHttp == [kind |-> "none", status |-> 0, text |-> "", json |-> NotJson]

\* the answers of the remote side to one call: success,
\* redirection, client error and server error statuses, with and without a
\* JSON body
Statuses == {200, 201, 204, 299, 300, 301, 302, 304, 399, 400, 401, 404, 500, 503}

HttpAnswers ==
    {TransportError}
    \cup {HttpResponse(status, text, json) :
            status \in Statuses,
            text \in {"", "Moved Permanently", "skill failed: syntax error near line 1"},
            json \in {NotJson, JsonList, JsonDict([answer |-> "SELECT 1"])}}

FailedHttp ==
    {TransportError,
     HttpResponse(500, "skill failed: syntax error near line 1", NotJson),
     HttpResponse(302, "", NotJson)}

(***************************************************************************)
(* mcp_server.py: the registered tools and how execute_tool binds the      *)
(* arguments mapping to the implementation's parameters.                   *)
(***************************************************************************)
_TOOL_IMPLEMENTATIONS == {"generate_sql", "execute_sql", "classify_chart_type", "generate_chart"}

EmptyArgs == <<>>

Signature(tool_name) ==
    CASE tool_name = "generate_sql" -> <<"question", "error_feedback">>
      [] tool_name = "execute_sql" -> <<"query">>
      [] tool_name = "classify_chart_type" -> <<"query", "headers", "rows">>
      [] tool_name = "generate_chart" -> <<"query", "headers", "rows">>

RequiredParams(tool_name) ==
    IF tool_name = "generate_sql" THEN <<"question">> ELSE Signature(tool_name)

ArgumentOrder == <<"question", "error_feedback", "query", "headers", "rows", "sql">>

InSeq(x, seq) == \E i \in 1..Len(seq) : seq[i] = x

Quoted(name) == "'" \o name \o "'"

NameList(names) ==
    CASE Len(names) = 1 -> Quoted(names[1])
      [] Len(names) = 2 -> Quoted(names[1]) \o " and " \o Quoted(names[2])
      [] Len(names) = 3 -> Quoted(names[1]) \o ", " \o Quoted(names[2]) \o ", and "
                           \o Quoted(names[3])

\* The TypeError Python raises for tool_impl(**arguments), "" when the call binds.
BindError(tool_name, arguments) ==
    LET sig == Signature(tool_name)
        unexpected == SelectSeq(ArgumentOrder,
                                LAMBDA k : k \in DOMAIN arguments /\ ~InSeq(k, sig))
        missing == SelectSeq(RequiredParams(tool_name), LAMBDA k : k \notin DOMAIN arguments)
        fn == "_run_" \o tool_name \o "()"
    IN  IF Len(unexpected) > 0
        THEN fn \o " got an unexpected keyword argument " \o Quoted(unexpected[1])
        ELSE IF Len(missing) = 1
        THEN fn \o " missing 1 required positional argument: " \o NameList(missing)
        ELSE IF Len(missing) = 2
        THEN fn \o " missing 2 required positional arguments: " \o NameList(missing)
        ELSE IF Len(missing) = 3
        THEN fn \o " missing 3 required positional arguments: " \o NameList(missing)
        ELSE ""

\* mutant: an unregistered name falls back on the generate_sql implementation
execute_tool_Default(tool_name, arguments) ==
    LET name == IF tool_name \in _TOOL_IMPLEMENTATIONS THEN tool_name ELSE "generate_sql"
    IN  IF BindError(name, arguments) # ""
        THEN [enter |-> FALSE, impl |-> "", error |-> BindError(name, arguments)]
        ELSE [enter |-> TRUE, impl |-> name, error |-> ""]

\* execute_tool up to the call of the implementation: which implementation is
\* entered, or the exception raised before any implementation runs.
execute_tool(tool_name, arguments) ==
    IF tool_name \notin _TOOL_IMPLEMENTATIONS
    THEN [enter |-> FALSE, impl |-> "", error |-> "Unknown tool: " \o tool_name]
    ELSE IF BindError(tool_name, arguments) # ""
    THEN [enter |-> FALSE, impl |-> "", error |-> BindError(tool_name, arguments)]
    ELSE [enter |-> TRUE, impl |-> tool_name, error |-> ""]

(***************************************************************************)
(* routes.py: routing                                                      *)
(***************************************************************************)
RaisedDecision(text) == [kind |-> "raise", error |-> text]

\* mutant: the execute_sql branch passes the message as the query
_fallback_tool_decision_WrongQuery(message, context) ==
    IF Truthy(context, "query") /\ ~Truthy(context, "headers")
    THEN ToolRouterDecision("execute_sql", [query |-> message])
    ELSE IF Truthy(context, "headers")
    THEN ToolRouterDecision("generate_chart",
                            [query |-> Get(context, "query", ""),
                             headers |-> context["headers"],
                             rows |-> Get(context, "rows", <<>>)])
    ELSE ToolRouterDecision("generate_sql", [question |-> message])

\* mutant: the generate_chart branch does not default a missing query to ""
\* but drops the argument
_fallback_tool_decision_NoQueryDefault(message, context) ==
    IF Truthy(context, "query") /\ ~Truthy(context, "headers")
    THEN ToolRouterDecision("execute_sql", [query |-> context["query"]])
    ELSE IF Truthy(context, "headers")
    THEN IF "query" \in DOMAIN context
         THEN ToolRouterDecision("generate_chart",
                                 [query |-> context["query"],
                                  headers |-> context["headers"],
                                  rows |-> Get(context, "rows", <<>>)])
         ELSE ToolRouterDecision("generate_chart",
                                 [headers |-> context["headers"],
                                  rows |-> Get(context, "rows", <<>>)])
    ELSE ToolRouterDecision("generate_sql", [question |-> message])

\* mutant: the last branch asks with the context's original_question
_fallback_tool_decision_WrongQuestion(message, context) ==
    IF Truthy(context, "query") /\ ~Truthy(context, "headers")
    THEN ToolRouterDecision("execute_sql", [query |-> context["query"]])
    ELSE IF Truthy(context, "headers")
    THEN ToolRouterDecision("generate_chart",
                            [query |-> Get(context, "query", ""),
                             headers |-> context["headers"],
                             rows |-> Get(context, "rows", <<>>)])
    ELSE ToolRouterDecision("generate_sql",
                            [question |-> Get(context, "original_question", "")])

\* mutant: the generate_chart branch subscripts context["rows"]
_fallback_tool_decision_KeyError(message, context) ==
    IF Truthy(context, "query") /\ ~Truthy(context, "headers")
    THEN ToolRouterDecision("execute_sql", [query |-> context["query"]])
    ELSE IF Truthy(context, "headers")
    THEN IF "rows" \in DOMAIN context
         THEN ToolRouterDecision("generate_chart",
                                 [query |-> Get(context, "query", ""),
                                  headers |-> context["headers"],
                                  rows |-> context["rows"]])
         ELSE RaisedDecision("'rows'")
    ELSE ToolRouterDecision("generate_sql", [question |-> message])

_fallback_tool_decision(message, context) ==
    IF Truthy(context, "query") /\ ~Truthy(context, "headers")
    THEN IF "query" \in DOMAIN context
         THEN ToolRouterDecision("execute_sql", [query |-> context["query"]])
         ELSE RaisedDecision("'query'")
    ELSE IF Truthy(context, "headers")
    THEN IF "headers" \in DOMAIN context
         THEN ToolRouterDecision("generate_chart",
                                 [query |-> Get(context, "query", ""),
                                  headers |-> context["headers"],
                                  rows |-> Get(context, "rows", <<>>)])
         ELSE RaisedDecision("'headers'")
    ELSE ToolRouterDecision("generate_sql", [question |-> message])

\* _get_tool_decision once kernel.run has returned or raised (res).
_get_tool_decision(res, message, context) ==
    IF res.kind = "ok"
    THEN IF res.json.shape = "dict"
         THEN ToolRouterDecision(Get(res.json.d, "tool", ""),
                                 Get(res.json.d, "arguments", EmptyArgs))
         ELSE NoDecision
    ELSE IF res.type = "KernelException"
    THEN _fallback_tool_decision(message, context)
    ELSE NoDecision

_error_response(error, tool_used) ==
    AgentResponse("error", [error |-> error], tool_used, FALSE)

\* mutant: the keywords are compared with the error text as it is, not lowered
_is_fixable_sql_error_CaseSensitive(error) ==
    \E err \in {"no such function", "syntax error", "no such column", "near"} :
        Contains(error, err)

_is_fixable_sql_error(error) ==
    \E err \in {"no such function", "syntax error", "no such column", "near"} :
        ContainsLower(error, err)

\* mutant: generate_sql and execute_sql answer with each other's type
response_types_Swapped(tool) ==
    CASE tool = "generate_sql" -> "query_results"
      [] tool = "execute_sql" -> "sql_query"
      [] tool = "classify_chart_type" -> "chart_type"
      [] tool = "generate_chart" -> "chart_image"
      [] OTHER -> "error"

response_types(tool) ==
    CASE tool = "generate_sql" -> "sql_query"
      [] tool = "execute_sql" -> "query_results"
      [] tool = "classify_chart_type" -> "chart_type"
      [] tool = "generate_chart" -> "chart_image"
      [] OTHER -> "error"

(***************************************************************************)
(* tools.py and the _run_* wrappers of mcp_server.py.  A tool outcome is   *)
(* the dict the wrapper returns (ok) or the text of the exception it       *)
(* raises.                                                                 *)
(***************************************************************************)
Skill(namespace, name) == [namespace |-> namespace, name |-> name]

KernelCall(skill, token, input) == [skill |-> skill, token |-> token, input |-> input]

NoCall == KernelCall(Skill("", ""), "", <<>>)

Returned(data) == [ok |-> TRUE, data |-> data, error |-> ""]

Raises(text) == [ok |-> FALSE, data |-> <<>>, error |-> text]

\* the prompt tool_generate_sql sends: the question, plus the feedback when given
skill_question(arguments) ==
    IF "error_feedback" \in DOMAIN arguments /\ arguments["error_feedback"] # ""
    THEN arguments["question"] \o "\n\nPrevious attempt failed with error: "
         \o arguments["error_feedback"]
         \o "\nPlease fix the SQL for SQLite (use strftime for dates, etc.)"
    ELSE arguments["question"]

\* mutant: an empty or missing answer is returned as the query
tool_generate_sql_EmptyAnswer(res) ==
    IF res.kind = "ok"
    THEN IF res.json.shape # "dict"
         THEN [success |-> FALSE, sql_query |-> "",
               error |-> "'list' object has no attribute 'get'"]
         ELSE [success |-> TRUE, sql_query |-> Get(res.json.d, "answer", ""), error |-> ""]
    ELSE [success |-> FALSE, sql_query |-> "", error |-> res.text]

\* tool_generate_sql once kernel.run has returned or raised (res)
tool_generate_sql(res) ==
    IF res.kind = "ok"
    THEN IF res.json.shape # "dict"
         THEN [success |-> FALSE, sql_query |-> "",
               error |-> "'list' object has no attribute 'get'"]
         ELSE IF Get(res.json.d, "answer", "") = ""
         THEN [success |-> FALSE, sql_query |-> "", error |-> "Unable to generate SQL query"]
         ELSE [success |-> TRUE, sql_query |-> res.json.d["answer"], error |-> ""]
    ELSE [success |-> FALSE, sql_query |-> "", error |-> res.text]

_run_generate_sql(res) ==
    LET result == tool_generate_sql(res)
    IN  IF ~result.success THEN Raises(result.error)
        ELSE Returned([sql_query |-> result.sql_query])

\* what the query engine does with a query: a result set or an exception
EngineRows(headers, rows) == [kind |-> "rows", headers |-> headers, rows |-> rows, text |-> ""]

EngineError(text) == [kind |-> "raise", headers |-> <<>>, rows |-> <<>>, text |-> text]

EngineErrors ==
    {"near \"SELEC\": syntax error",
     "no such column: Countri",
     "no such function: YEAR",
     "Syntax Error at line 1",
     "no such table: nearby_stores",
     "no such table: Customer",
     "database is locked"}

EngineOutcomes ==
    {EngineRows(<<"1">>, <<(<<1>>)>>),
     EngineRows(<<"a", "b">>, <<(<<1, 2>>), (<<3, 4>>)>>),
     EngineRows(<<>>, <<>>)}
    \cup {EngineError(e) : e \in EngineErrors}

\* what database.connect() does: returns ("") or raises with this text
ConnectErrors == {"unable to open database file"}

EngineCall(op, arg, outcome) == [op |-> op, arg |-> arg, outcome |-> outcome]

\* mutant: connect() is called on every execution
tool_execute_sql_Reconnect(database, query, connect, db) ==
    LET calls == <<EngineCall("connect", "", connect)>>
    IN  IF connect # ""
        THEN [success |-> FALSE, query |-> query, headers |-> <<>>, rows |-> <<>>,
              count |-> 0, error |-> connect, calls |-> calls, is_connected |-> FALSE]
        ELSE IF db.kind = "raise"
        THEN [success |-> FALSE, query |-> query, headers |-> <<>>, rows |-> <<>>,
              count |-> 0, error |-> db.text,
              calls |-> Append(calls, EngineCall("query", query, db)),
              is_connected |-> TRUE]
        ELSE [success |-> TRUE, query |-> query, headers |-> db.headers, rows |-> db.rows,
              count |-> Len(db.rows), error |-> "",
              calls |-> Append(calls, EngineCall("query", query, db)),
              is_connected |-> TRUE]

\* tool_execute_sql on the shared handle `database`: connect() answers `connect`
\* when it is called, query() answers `db`.  The result carries, besides the
\* dict returned, the engine calls made and the handle's state afterwards.
\* rows is a list for every result of the engine, so count is len(rows).
tool_execute_sql(database, query, connect, db) ==
    LET calls == IF ~database.is_connected THEN <<EngineCall("connect", "", connect)>>
                 ELSE <<>>
    IN  IF ~database.is_connected /\ connect # ""
        THEN [success |-> FALSE, query |-> query, headers |-> <<>>, rows |-> <<>>,
              count |-> 0, error |-> connect, calls |-> calls, is_connected |-> FALSE]
        ELSE IF db.kind = "raise"
        THEN [success |-> FALSE, query |-> query, headers |-> <<>>, rows |-> <<>>,
              count |-> 0, error |-> db.text,
              calls |-> Append(calls, EngineCall("query", query, db)),
              is_connected |-> TRUE]
        ELSE [success |-> TRUE, query |-> query, headers |-> db.headers, rows |-> db.rows,
              count |-> Len(db.rows), error |-> "",
              calls |-> Append(calls, EngineCall("query", query, db)),
              is_connected |-> TRUE]

_run_execute_sql(result) ==
    IF ~result.success THEN Raises(result.error)
    ELSE Returned([query |-> result.query, headers |-> result.headers,
                   rows |-> result.rows, count |-> result.count])

\* tool_classify_chart_type once kernel.run has returned or raised (res)
tool_classify_chart_type(res, arguments) ==
    IF res.kind = "ok"
    THEN IF res.json.shape # "dict"
         THEN [success |-> FALSE, chart_type |-> "bar",
               error |-> "'list' object has no attribute 'get'"]
         ELSE [success |-> TRUE, chart_type |-> Get(res.json.d, "chart_type", "bar"),
               error |-> ""]
    ELSE [success |-> FALSE, chart_type |-> "bar", error |-> res.text]

_run_classify_chart_type(res, arguments) ==
    LET result == tool_classify_chart_type(res, arguments)
    IN  IF ~result.success THEN Raises(result.error)
        ELSE Returned([chart_type |-> result.chart_type, headers |-> arguments["headers"],
                       rows_count |-> Len(arguments["rows"])])

(***************************************************************************)
(* chart.py, the execution unit.  A line of it is its indentation, whether *)
(* it opens a block (ends in a colon), and what it is; the generated code  *)
(* is a sequence of such lines, numbered from 1.                           *)
(***************************************************************************)
MaxLines == 5

Line(indent, opens, what, n) == [indent |-> indent, opens |-> opens, what |-> what, n |-> n]

\* the f-string puts `    {chart_code}` under `else:`; the four blanks of the
\* template precede the first line of chart_code only, the following lines
\* come as they are
_create_chart_execution_code(chart_code) ==
    <<Line(0, TRUE, "if df.empty", 0),
      Line(4, FALSE, "placeholder", 0),
      Line(0, TRUE, "else", 0),
      Line(4, FALSE, "print", 0)>>
    \o [k \in 1..Len(chart_code) |->
          Line(IF k = 1 THEN 4 + chart_code[k].indent ELSE chart_code[k].indent,
               chart_code[k].opens, "code", k)]
    \o <<Line(0, FALSE, "savefig", 0)>>

NotRun == [error |-> "", executed |-> <<>>, ran |-> FALSE]

IndentationError(text) == [error |-> "IndentationError: " \o text, executed |-> <<>>, ran |-> TRUE]

\* the innermost block of `stack` at this indentation, 0 when there is none
RECURSIVE dedent(_, _)
dedent(stack, indent) ==
    IF stack = <<>> THEN <<>>
    ELSE IF stack[Len(stack)].indent = indent THEN stack
    ELSE IF stack[Len(stack)].indent < indent THEN <<>>
    ELSE dedent(SubSeq(stack, 1, Len(stack) - 1), indent)

\* whether the block a line opens is entered, given that the line is reached
enters(line, empty) ==
    CASE line.what = "if df.empty" -> empty
      [] line.what = "else" -> ~empty
      [] OTHER -> TRUE

\* the interpreter on chart.py: the file is compiled whole, so an indentation
\* error runs nothing; otherwise a line runs when every block around it is
\* entered.  `stack` is the open blocks, each with whether it is entered;
\* `enter` is whether the block opened by the line before is entered.
RECURSIVE python(_, _, _, _, _, _)
python(lines, k, stack, enter, empty, executed) ==
    IF k > Len(lines)
    THEN IF lines[Len(lines)].opens
         THEN IndentationError("expected an indented block")
         ELSE [error |-> "", executed |-> executed, ran |-> TRUE]
    ELSE LET line == lines[k]
             top == stack[Len(stack)]
             opened == k > 1 /\ lines[k - 1].opens
             blocks ==
                 IF opened
                 THEN IF line.indent > top.indent
                      THEN Append(stack, [indent |-> line.indent, runs |-> enter])
                      ELSE <<>>
                 ELSE IF line.indent > top.indent THEN <<>>
                 ELSE dedent(stack, line.indent)
         IN  IF blocks = <<>>
             THEN IF opened /\ line.indent <= top.indent
                  THEN IndentationError("expected an indented block")
                  ELSE IF line.indent > top.indent
                  THEN IndentationError("unexpected indent")
                  ELSE IndentationError("unindent does not match any outer indentation level")
             ELSE LET runs == blocks[Len(blocks)].runs
                  IN  python(lines, k + 1, blocks, runs /\ enters(line, empty), empty,
                             IF runs /\ line.what \in {"placeholder", "code", "savefig"}
                             THEN Append(executed, [what |-> line.what, n |-> line.n])
                             ELSE executed)

\* whether the interpreter accepts these lines as a file
compiles(lines) ==
    python(lines, 1, <<[indent |-> 0, runs |-> TRUE]>>, FALSE, FALSE, <<>>).error = ""

\* a line of generated code as the model wrote it: at the left margin or
\* inside one or two blocks, a simple statement or the head of a compound one
CodeLines == {[indent |-> i, opens |-> o] : i \in {0, 4, 8}, o \in BOOLEAN}

\* the generated code: any Python of up to MaxLines lines that compiles as it
\* stands
ChartCodes ==
    {chart_code \in UNION {[1..n -> CodeLines] : n \in 1..MaxLines} :
        compiles([k \in 1..Len(chart_code) |->
                    Line(chart_code[k].indent, chart_code[k].opens, "code", k)])}

(***************************************************************************)
(* chart_service.py, as far as the orchestrator sees it: two remote calls  *)
(* and a blocking child process whose result is (timed out, exit code,     *)
(* artifact written).                                                      *)
(***************************************************************************)
\* _generate_chart_code, step 1, once the classifier call has answered
chart_type_of(res) ==
    IF res.kind = "ok"
    THEN IF res.json.shape # "dict"
         THEN Raises("'list' object has no attribute 'get'")
         ELSE IF Get(res.json.d, "chart_type", "") = ""
         THEN Returned("bar")
         ELSE Returned(res.json.d["chart_type"])
    ELSE IF res.type = "KernelException" THEN Returned("bar")
    ELSE Raises(res.text)

\* mutant: a reply without chart code goes on into the render with empty code
chart_code_of_EmptyCode(res) ==
    IF res.kind = "ok"
    THEN IF res.json.shape # "dict"
         THEN Raises("'list' object has no attribute 'get'")
         ELSE Returned(Get(res.json.d, "chart_code", ""))
    ELSE IF res.type = "KernelException" THEN Raises("Chart generation skill not available")
    ELSE Raises(res.text)

\* _generate_chart_code, step 2, once the generator call has answered
chart_code_of(res) ==
    IF res.kind = "ok"
    THEN IF res.json.shape # "dict"
         THEN Raises("'list' object has no attribute 'get'")
         ELSE IF Get(res.json.d, "chart_code", "") = ""
         THEN Raises("Failed to generate chart code")
         ELSE Returned(res.json.d["chart_code"])
    ELSE IF res.type = "KernelException" THEN Raises("Chart generation skill not available")
    ELSE Raises(res.text)

ChildOutcome(timeout, returncode, stderr, artifact, size) ==
    [ended |-> TRUE, timeout |-> timeout, returncode |-> returncode, stderr |-> stderr,
     artifact |-> artifact, size |-> size]

\* subprocess.run has not come back
Pending ==
    [ended |-> FALSE, timeout |-> FALSE, returncode |-> 0, stderr |-> "",
     artifact |-> FALSE, size |-> 0]

\* subprocess.run(..., timeout=60)
timeout_seconds == 60

\* how long a child may take to end by itself, in seconds
Durations == {1, 60, 61}

Stderrs == {"", "NameError: name 'sns' is not defined", "Chart generation timed out",
            "Chart image was not generated"}

\* what chart.py does when it is left alone: whether it ends at all, its exit
\* code and stderr, and whether it reached plt.savefig (a script may save and
\* then fail or hang)
Script(returncode, stderr, artifact, size) ==
    [halts |-> TRUE, returncode |-> returncode, stderr |-> stderr,
     artifact |-> artifact, size |-> size]

Hangs(artifact, size) ==
    [halts |-> FALSE, returncode |-> 0, stderr |-> "", artifact |-> artifact,
     size |-> size]

Scripts ==
    {Script(1, e, a, 5) : e \in Stderrs, a \in BOOLEAN}
    \cup {Script(0, "", FALSE, 0)}
    \cup {Script(0, "", TRUE, n) : n \in {4, 5, 6}}
    \cup {Hangs(FALSE, 0), Hangs(TRUE, 5)}

\* mutant: subprocess.run without timeout waits for the child for ever
subprocess_run_NoTimeout(duration, script) ==
    IF ~script.halts THEN Pending
    ELSE ChildOutcome(FALSE, script.returncode, script.stderr, script.artifact,
                      script.size)

\* _execute_chart_generation: the child is killed and TimeoutExpired raised
\* when it has not ended within the bound, else its exit code and stderr return
subprocess_run(duration, script) ==
    IF ~script.halts \/ duration > timeout_seconds
    THEN ChildOutcome(TRUE, 0, "", script.artifact, script.size)
    ELSE ChildOutcome(FALSE, script.returncode, script.stderr, script.artifact,
                      script.size)

ChildOutcomes == {subprocess_run(d, script) : d \in Durations, script \in Scripts}

\* the child of one render: not started, running, or ended as subprocess.run saw it
NoChild ==
    [state |-> "none", duration |-> 0, script |-> Script(0, "", FALSE, 0),
     outcome |-> Pending]

Running(duration, script) ==
    [state |-> "running", duration |-> duration, script |-> script, outcome |-> Pending]

\* mutant: at the deadline the parent gives up waiting and leaves the child alone
ChildEnded_NotKilled(outcome) ==
    [state |-> IF outcome.timeout THEN "running" ELSE "exited", duration |-> 0,
     script |-> Script(0, "", FALSE, 0), outcome |-> outcome]

\* subprocess.run returns: the child has exited, or the parent has killed and
\* reaped it at the deadline
ChildEnded(outcome) ==
    [state |-> IF outcome.timeout THEN "killed" ELSE "exited", duration |-> 0,
     script |-> Script(0, "", FALSE, 0), outcome |-> outcome]

\* mutant: base64 without the padding characters
b64encode_NoPadding(size) == [encoded_length |-> (4 * size + 2) \div 3]

\* base64.b64encode: 4 characters for every started group of 3 bytes
b64encode(size) == [encoded_length |-> 4 * ((size + 2) \div 3)]

\* mutant: the artifact is looked for before the exit code
render_ArtifactFirst(child) ==
    IF child.timeout THEN Raises("Chart generation timed out")
    ELSE IF child.artifact THEN Returned(b64encode(child.size))
    ELSE IF child.returncode # 0
    THEN Raises("Error executing chart code: Chart generation failed: " \o child.stderr)
    ELSE Raises("Error executing chart code: Chart image was not generated")

\* generate_chart_image, the try block: the child has ended (or was killed) and
\* the image is read from the workspace
render(child) ==
    IF child.timeout THEN Raises("Chart generation timed out")
    ELSE IF child.returncode # 0
    THEN Raises("Error executing chart code: Chart generation failed: " \o child.stderr)
    ELSE IF ~child.artifact
    THEN Raises("Error executing chart code: Chart image was not generated")
    ELSE Returned(b64encode(child.size))

(***************************************************************************)
(* _create_data_preparation_code: the cleaning loop of data.py, for one     *)
(* column of dtype object.  A cell is a text, a missing value (None), and   *)
(* after coercion a number or NaN.                                         *)
(***************************************************************************)
Text(s) == [kind |-> "text", s |-> s, n |-> 0]

Missing == [kind |-> "missing", s |-> "", n |-> 0]

Number(n) == [kind |-> "number", s |-> "", n |-> n]

NaN == [kind |-> "nan", s |-> "", n |-> 0]

DigitValue(c) ==
    CASE c = "0" -> 0 [] c = "1" -> 1 [] c = "2" -> 2 [] c = "3" -> 3 [] c = "4" -> 4
      [] c = "5" -> 5 [] c = "6" -> 6 [] c = "7" -> 7 [] c = "8" -> 8 [] c = "9" -> 9
      [] OTHER -> -1

IsDigits(s) ==
    /\ Len(s) >= 1
    /\ \A i \in 1..Len(s) : DigitValue(SubSeq(s, i, i)) >= 0

RECURSIVE Decimal(_)
Decimal(s) ==
    IF Len(s) = 0 THEN 0
    ELSE 10 * Decimal(SubSeq(s, 1, Len(s) - 1)) + DigitValue(SubSeq(s, Len(s), Len(s)))

\* pd.to_numeric(..., errors='coerce') on one cell
to_numeric(cell) ==
    IF cell.kind = "text" /\ IsDigits(cell.s) THEN Number(Decimal(cell.s))
    ELSE IF cell.kind = "number" THEN cell
    ELSE NaN

notna(cell) == cell.kind \notin {"nan", "missing"}

\* Series.fillna(0)
fillna(cell) == IF notna(cell) THEN cell ELSE Number(0)

\* mutant: the share is taken of the values that are not missing
clean_column_NonMissing(col) ==
    LET numeric_series == [i \in 1..Len(col) |-> to_numeric(col[i])]
        converted == Cardinality({i \in 1..Len(col) : notna(numeric_series[i])})
        present == Cardinality({i \in 1..Len(col) : col[i].kind # "missing"})
    IN  IF converted # 0 /\ 2 * converted > present
        THEN [i \in 1..Len(col) |-> fillna(numeric_series[i])]
        ELSE col

\* the body of `for col in df.columns` for a column of dtype object:
\* notna().sum() / len(df) > 0.5 is 2 * converted > len(df)
clean_column(col) ==
    LET numeric_series == [i \in 1..Len(col) |-> to_numeric(col[i])]
        converted == Cardinality({i \in 1..Len(col) : notna(numeric_series[i])})
    IN  IF converted # 0 /\ 2 * converted > Len(col)
        THEN [i \in 1..Len(col) |-> fillna(numeric_series[i])]
        ELSE col

\* the rows of a result
MaxRows == 4

Cells == {Text("23"), Text("4x"), Missing}

Columns == UNION {[1..n -> Cells] : n \in 0..MaxRows}

\* the workspace of one render: the temporary directory and the files in it
Workspace(files) == [exists |-> TRUE, files |-> files]

NoWorkspace == [exists |-> FALSE, files |-> {}]

\* open(..., "w") of data.py and chart.py: "" when both are written, else the
\* file whose write raised OSError
WriteOutcomes == {"", "data.py", "chart.py"}

OSError(file) == "[Errno 28] No space left on device: '" \o file \o "'"

\* the files in the workspace once the writes have ended this way
written(write) ==
    IF write = "data.py" THEN {}
    ELSE IF write = "chart.py" THEN {"data.py"}
    ELSE {"data.py", "chart.py"}

\* the files in the workspace once the child has ended
saved(files, child) == IF child.artifact THEN files \cup {"chart_uuid.png"} ELSE files

\* mutant: the workspace is removed only when the render returns an image
TemporaryDirectory_exit_OnSuccess(workspace_, outcome) ==
    IF outcome.ok THEN NoWorkspace ELSE workspace_

\* leaving `with tempfile.TemporaryDirectory()`, by return or by exception
TemporaryDirectory_exit(workspace_, outcome) == NoWorkspace

(***************************************************************************)
(* The temp root, a namespace this program shares with every other one on  *)
(* the machine.  A file is known by its name and by who wrote it: request  *)
(* r (the render or its child), or 0 for another program.  The image of    *)
(* every render goes by one name here, as if all chart identifiers were    *)
(* equal: what keeps renders apart is then the directory alone.            *)
(***************************************************************************)
TempDirs == {"tmpa", "tmpb", "tmpc"}

File(name, by) == [name |-> name, by |-> by]

NoDir == [exists |-> FALSE, files |-> {}]

Dir(files) == [exists |-> TRUE, files |-> files]

\* a directory of another program, which holds files of the same names
Foreign == Dir({File("data.py", 0), File("chart.py", 0), File("chart_uuid.png", 0)})

\* mutant: a fixed directory under the temp root, made unless it is there
mkdtemp_Fixed(dirs) == {"tmpa"}

\* tempfile.mkdtemp: a directory that did not exist, created for the caller
mkdtemp(dirs) == {d \in TempDirs : ~dirs[d].exists}

\* open(path, "w") ... write, or plt.savefig: the file is replaced
put(files, names, by) ==
    {f \in files : f.name \notin names} \cup {File(n, by) : n \in names}

\* the files in this directory that go by one of these names
found(dir, names) == {f \in dir.files : f.name \in names}

\* the render of r enters `with tempfile.TemporaryDirectory() as temp_dir`
\* with directory d and writes these files
entered(fs, r, d, names) ==
    [dirs |-> [fs.dirs EXCEPT ![d] = Dir(put(fs.dirs[d].files, names, r))],
     temp_dir |-> [fs.temp_dir EXCEPT ![r] = d],
     reads |-> [fs.reads EXCEPT ![r] = {}]]

\* the child of r has run in its directory (it imports data.py and saves the
\* image when it gets there), the parent has read the image when it returns
\* one, and the `with` block is left: the directory is removed
left(fs, r, outcome, image) ==
    LET d == fs.temp_dir[r]
        after == IF outcome.artifact
                 THEN put(fs.dirs[d].files, {"chart_uuid.png"}, r)
                 ELSE fs.dirs[d].files
        names == {"data.py", "chart.py"}
                 \cup (IF image.ok THEN {"chart_uuid.png"} ELSE {})
    IN  [dirs |-> [fs.dirs EXCEPT ![d] = NoDir],
         temp_dir |-> [fs.temp_dir EXCEPT ![r] = ""],
         reads |-> [fs.reads EXCEPT ![r] = found(Dir(after), names)]]

\* tool_generate_chart and _run_generate_chart around generate_chart_image
_run_generate_chart(image, arguments) ==
    IF ~image.ok THEN Raises(image.error)
    ELSE Returned([chart_image |-> image.data,
                   image_size_kb |-> [num |-> image.data.encoded_length * 3,
                                      den |-> 4 * 1024],
                   rows_count |-> Len(arguments["rows"])])

(***************************************************************************)
(* What the remote skills may answer.                                      *)
(***************************************************************************)
RouterTools == _TOOL_IMPLEMENTATIONS \cup {"summarize"}

RouterArguments ==
    {EmptyArgs,
     [question |-> "How many customers per country?"],
     [query |-> "SELECT 1"],
     [query |-> "SELECT 1", headers |-> <<"1">>, rows |-> <<(<<1>>)>>],
     [sql |-> "SELECT 1"]}

RouterDict(t, a) ==
    LET keys == (IF t.set THEN {"tool"} ELSE {}) \cup (IF a.set THEN {"arguments"} ELSE {})
    IN  [k \in keys |-> IF k = "tool" THEN t.v ELSE a.v]

RouterHttp ==
    FailedHttp \cup {HttpResponse(200, "", JsonList)}
    \cup {HttpResponse(200, "", JsonDict(RouterDict(t, a))) :
            t \in Opt(RouterTools), a \in Opt(RouterArguments)}

SqlGeneratorHttp ==
    FailedHttp \cup {HttpResponse(200, "", JsonList)}
    \cup {HttpResponse(200, "", JsonDict(d)) :
            d \in {<<>>, [answer |-> ""],
                   [answer |-> "SELECT Country, COUNT(*) FROM Customers GROUP BY Country;"]}}

ClassifierHttp ==
    FailedHttp \cup {HttpResponse(200, "", JsonList)}
    \cup {HttpResponse(200, "", JsonDict(d)) :
            d \in {<<>>, [chart_type |-> ""], [chart_type |-> "pie"]}}

GeneratorHttp ==
    FailedHttp \cup {HttpResponse(200, "", JsonList)}
    \cup {HttpResponse(200, "", JsonDict(d)) :
            d \in {<<>>, [chart_code |-> "df.plot(kind='bar')"]}}

\* request bodies that fail `await request.json()` or AgentRequest(**body)
InvalidBodies ==
    {[type |-> "JSONDecodeError", text |-> "Expecting value: line 1 column 1 (char 0)"],
     [type |-> "ValidationError", text |-> "1 validation error for AgentRequest"],
     [type |-> "TypeError",
      text |-> "service.models.AgentRequest() argument after ** must be a mapping, not list"]}

(***************************************************************************)
(* State                                                                   *)
(***************************************************************************)
VARIABLES
    loop,          \* the request whose task the event loop runs, 0 when none
    pc,            \* per request: where its task stands
    message,       \* per request: req.message
    context,       \* per request: req.context or {}
    _token,        \* mcp_server._token
    is_connected,  \* database.is_connected
    awaiting,      \* per request: the remote call its task is suspended on
    routerResult,  \* per request: how the tool_router call ended
    decision,      \* per request: the decision _get_tool_decision returned
    toolCalls,     \* per request: the execute_tool calls, in order
    implCalls,     \* per request: the tool implementations entered, in order
    toolResults,   \* per request: how each finished execute_tool call ended
    error_msg,     \* per request: str(e) in the handler of _execute_with_retry
    chart_type,    \* per request: chart type inside the chart pipeline
    response,      \* per request: the AgentResponse returned
    kernelCalls,   \* per request: the kernel.run calls made, in order
    kernelResults, \* per request: how each kernel.run call ended, in order
    engineCalls,   \* per request: for each execute_sql run, the handle's state
                   \* before it and the calls it made on the handle
    workspace,     \* per request: the temporary directory of its render
    renderLog,     \* per request: what generate_chart_image did, in order
    child,         \* per request: the child process of its render
    df,            \* a column as the query returned it and as data.py leaves it
    exchange,      \* one remote call on its own: the HTTP answer and what
                   \* HttpKernel.run made of it
    unit,          \* one chart.py on its own: the generated code, whether the
                   \* table is empty, and what the interpreter ran
    tmpfs,         \* the directories under the temp root, each render's own
                   \* directory, and the files read on behalf of each render
    fallbackLog    \* the last two calls of _fallback_tool_decision made on its own

vars == <<loop, pc, message, context, _token, is_connected, awaiting, routerResult,
          decision, toolCalls, implCalls, toolResults, error_msg, chart_type, response,
          kernelCalls, kernelResults, engineCalls, workspace, renderLog, child, df,
          tmpfs, exchange, unit, fallbackLog>>

NoResult == [kind |-> "none", type |-> "", status |-> 0, text |-> "", json |-> NotJson]

Init ==
    /\ loop = 0
    /\ pc = [r \in Requests |-> "idle"]
    /\ message = [r \in Requests |-> ""]
    /\ context = [r \in Requests |-> EmptyContext]
    /\ _token = ""
    /\ is_connected \in BOOLEAN
    /\ awaiting = [r \in Requests |-> NoCall]
    /\ routerResult = [r \in Requests |-> NoResult]
    /\ decision = [r \in Requests |-> NoDecision]
    /\ toolCalls = [r \in Requests |-> <<>>]
    /\ implCalls = [r \in Requests |-> <<>>]
    /\ toolResults = [r \in Requests |-> <<>>]
    /\ error_msg = [r \in Requests |-> ""]
    /\ chart_type = [r \in Requests |-> ""]
    /\ response = [r \in Requests |-> NoResponse]
    /\ kernelCalls = [r \in Requests |-> <<>>]
    /\ kernelResults = [r \in Requests |-> <<>>]
    /\ engineCalls = [r \in Requests |-> <<>>]
    /\ workspace = [r \in Requests |-> NoWorkspace]
    /\ renderLog = [r \in Requests |-> <<>>]
    /\ child = [r \in Requests |-> NoChild]
    /\ df = [col |-> <<>>, cleaned |-> <<>>]
    /\ tmpfs = [dirs |-> [d \in TempDirs |-> IF d = "tmpa" THEN Foreign ELSE NoDir],
                temp_dir |-> [r \in Requests |-> ""],
                reads |-> [r \in Requests |-> {}]]
    /\ exchange = [http |-> NoHttp, result |-> NoResult]
    /\ unit = [chart_code |-> <<>>, empty |-> FALSE, result |-> NotRun]
    /\ fallbackLog = <<>>

ToolCall(tool, arguments) == [tool |-> tool, arguments |-> arguments]

\* the task of r ends with this response
Finish(r, resp) ==
    /\ response' = [response EXCEPT ![r] = resp]
    /\ pc' = [pc EXCEPT ![r] = "done"]
    /\ awaiting' = [awaiting EXCEPT ![r] = NoCall]
    /\ loop' = 0

\* how agent_endpoint is left: with a response, or by an exception
Answers(resp) == [raised |-> FALSE, response |-> resp, error |-> ""]

Propagates(text) == [raised |-> TRUE, response |-> NoResponse, error |-> text]

\* mutant: the handler raises every exception again
agent_endpoint_except_Reraise(type, text) == Propagates(text)

\* agent_endpoint, the except clauses for an exception that reaches them:
\* HTTPException is raised again, every other Exception is answered
agent_endpoint_except(type, text) ==
    IF type = "HTTPException" THEN Propagates(text)
    ELSE Answers(_error_response(text, "unknown"))

\* the task of r ends, with the response returned or with the exception
Leave(r, outcome) ==
    /\ response' = [response EXCEPT ![r] = outcome.response]
    /\ pc' = [pc EXCEPT ![r] = IF outcome.raised THEN "raised" ELSE "done"]
    /\ awaiting' = [awaiting EXCEPT ![r] = NoCall]
    /\ loop' = 0

\* mutant: the remote call is made with a blocking client, the task keeps the loop
Suspend_Blocking(r, at, call) ==
    /\ pc' = [pc EXCEPT ![r] = at]
    /\ awaiting' = [awaiting EXCEPT ![r] = call]
    /\ kernelCalls' = [kernelCalls EXCEPT ![r] = Append(@, call)]
    /\ loop' = r

\* the task of r suspends on a remote skill call
Suspend(r, at, call) ==
    /\ pc' = [pc EXCEPT ![r] = at]
    /\ awaiting' = [awaiting EXCEPT ![r] = call]
    /\ kernelCalls' = [kernelCalls EXCEPT ![r] = Append(@, call)]
    /\ loop' = 0

\* one run of tool_execute_sql on the shared handle, with its effects on it
EngineRun(r, result) ==
    /\ engineCalls' = [engineCalls EXCEPT
                         ![r] = Append(@, [is_connected |-> is_connected,
                                           calls |-> result.calls])]
    /\ is_connected' = result.is_connected

\* what connect() may answer when it is called; it is not called on an open handle
ConnectOutcomes == IF is_connected THEN {""} ELSE {""} \cup ConnectErrors

\* the remote call the task of r is suspended on has returned or raised
Answered(r, res) == kernelResults' = [kernelResults EXCEPT ![r] = Append(@, res)]

(***************************************************************************)
(* agent_endpoint: from the arrival of a request to the first await that   *)
(* suspends, the tool_router call.                                         *)
(***************************************************************************)
Fresh(r) ==
    /\ routerResult' = [routerResult EXCEPT ![r] = NoResult]
    /\ decision' = [decision EXCEPT ![r] = NoDecision]
    /\ toolCalls' = [toolCalls EXCEPT ![r] = <<>>]
    /\ implCalls' = [implCalls EXCEPT ![r] = <<>>]
    /\ toolResults' = [toolResults EXCEPT ![r] = <<>>]
    /\ error_msg' = [error_msg EXCEPT ![r] = ""]
    /\ chart_type' = [chart_type EXCEPT ![r] = ""]
    /\ kernelCalls' = [kernelCalls EXCEPT ![r] = <<>>]
    /\ kernelResults' = [kernelResults EXCEPT ![r] = <<>>]
    /\ engineCalls' = [engineCalls EXCEPT ![r] = <<>>]
    /\ renderLog' = [renderLog EXCEPT ![r] = <<>>]
    /\ child' = [child EXCEPT ![r] = NoChild]
    /\ tmpfs' = [tmpfs EXCEPT !.reads[r] = {}]

\* the body does not parse or does not validate: `except Exception` answers
RejectBody(r) ==
    /\ loop = 0
    /\ pc[r] = "idle"
    /\ \E e \in InvalidBodies : Leave(r, agent_endpoint_except(e.type, e.text))
    /\ UNCHANGED <<message, context, _token, is_connected, routerResult, decision,
                   toolCalls, implCalls, toolResults, error_msg, chart_type,
                   engineCalls, workspace, renderLog, child, df, tmpfs, exchange, unit,
                   fallbackLog, kernelCalls, kernelResults>>

AgentEndpoint(r) ==
    /\ loop = 0
    /\ pc[r] = "idle"
    /\ \E m \in Messages, c \in Contexts :
        /\ message' = [message EXCEPT ![r] = m]
        /\ context' = [context EXCEPT ![r] = c]
        /\ _token' = Tokens[r]
        /\ Suspend(r, "tool_router",
                   KernelCall(Skill("playground", "tool_router"), Tokens[r],
                              [message |-> m, context |-> c]))
    /\ UNCHANGED <<is_connected, routerResult, decision, toolCalls, implCalls,
                   toolResults, error_msg, chart_type, response, engineCalls, workspace,
                   renderLog, child, df, tmpfs, exchange, unit, fallbackLog,
                   kernelResults>>

\* the response has been handed to the caller and the task is gone; the slot
\* takes the next request
TaskEnds(r) ==
    /\ loop = 0
    /\ pc[r] \in {"done", "raised", "cancelled"}
    /\ Fresh(r)
    /\ pc' = [pc EXCEPT ![r] = "idle"]
    /\ message' = [message EXCEPT ![r] = ""]
    /\ context' = [context EXCEPT ![r] = EmptyContext]
    /\ response' = [response EXCEPT ![r] = NoResponse]
    /\ UNCHANGED <<loop, _token, is_connected, awaiting, workspace, df, exchange, unit,
                   fallbackLog>>

\* the tool_router call answers: _get_tool_decision returns and agent_endpoint
\* either answers at once or goes on into _execute_with_retry
RouterAnswers(r) ==
    /\ loop = 0
    /\ pc[r] = "tool_router"
    /\ \E http \in RouterHttp :
        LET res == HttpKernel_run(http)
            d == _get_tool_decision(res, message[r], context[r])
        IN  /\ routerResult' = [routerResult EXCEPT ![r] = res]
            /\ Answered(r, res)
            /\ decision' = [decision EXCEPT ![r] = d]
            /\ IF d.kind = "none"
               THEN Finish(r, _error_response("Could not determine tool", "unknown"))
               ELSE IF d.kind = "raise"
               THEN Leave(r, agent_endpoint_except("KeyError", d.error))
               ELSE /\ pc' = [pc EXCEPT ![r] = "execute"]
                    /\ awaiting' = [awaiting EXCEPT ![r] = NoCall]
                    /\ loop' = r
                    /\ UNCHANGED response
    /\ UNCHANGED <<message, context, _token, is_connected, toolCalls, implCalls,
                   toolResults, error_msg, chart_type, engineCalls, workspace,
                   renderLog, child, df, tmpfs, exchange, unit, fallbackLog,
                   kernelCalls>>

(***************************************************************************)
(* _execute_with_retry, the try block: execute_tool(decision.tool, ...)    *)
(***************************************************************************)
Called(r, tool, arguments) ==
    toolCalls' = [toolCalls EXCEPT ![r] = Append(@, ToolCall(tool, arguments))]

Entered(r, impl) == implCalls' = [implCalls EXCEPT ![r] = Append(@, impl)]

Ended(r, outcome) == toolResults' = [toolResults EXCEPT ![r] = Append(@, outcome)]

\* the exception reaches `except Exception as e` of _execute_with_retry
Caught(r, text) ==
    /\ error_msg' = [error_msg EXCEPT ![r] = text]
    /\ pc' = [pc EXCEPT ![r] = "except"]
    /\ awaiting' = [awaiting EXCEPT ![r] = NoCall]
    /\ loop' = r

Success(r, data) ==
    Finish(r, AgentResponse(response_types(decision[r].tool), data, decision[r].tool, TRUE))

\* execute_tool raises before any implementation runs
DispatchRaises(r) ==
    /\ loop = r
    /\ pc[r] = "execute"
    /\ LET e == execute_tool(decision[r].tool, decision[r].arguments)
       IN  /\ ~e.enter
           /\ Called(r, decision[r].tool, decision[r].arguments)
           /\ Ended(r, Raises(e.error))
           /\ Caught(r, e.error)
    /\ UNCHANGED <<message, context, _token, is_connected, routerResult, decision,
                   implCalls, chart_type, response, engineCalls, workspace, renderLog,
                   child, df, tmpfs, exchange, unit, fallbackLog, kernelCalls,
                   kernelResults>>

CallGenerateSql(r) ==
    /\ loop = r
    /\ pc[r] = "execute"
    /\ LET e == execute_tool(decision[r].tool, decision[r].arguments)
       IN  /\ e.enter
           /\ e.impl = "generate_sql"
           /\ Called(r, decision[r].tool, decision[r].arguments)
           /\ Entered(r, e.impl)
           /\ Suspend(r, "generate_sql",
                      KernelCall(Skill("playground", "sql-generator"), _token,
                                 [question |-> skill_question(decision[r].arguments)]))
    /\ UNCHANGED <<message, context, _token, is_connected, routerResult, decision,
                   toolResults, error_msg, chart_type, response, engineCalls, workspace,
                   renderLog, child, df, tmpfs, exchange, unit, fallbackLog,
                   kernelResults>>

CallExecuteSql(r) ==
    /\ loop = r
    /\ pc[r] = "execute"
    /\ LET e == execute_tool(decision[r].tool, decision[r].arguments)
       IN  /\ e.enter
           /\ e.impl = "execute_sql"
           /\ Called(r, decision[r].tool, decision[r].arguments)
           /\ Entered(r, e.impl)
           /\ \E connect \in ConnectOutcomes, db \in EngineOutcomes :
                LET result == tool_execute_sql([is_connected |-> is_connected],
                                               decision[r].arguments["query"], connect, db)
                    out == _run_execute_sql(result)
                IN  /\ EngineRun(r, result)
                    /\ Ended(r, out)
                    /\ IF out.ok
                       THEN Success(r, out.data) /\ UNCHANGED error_msg
                       ELSE Caught(r, out.error) /\ UNCHANGED response
    /\ UNCHANGED <<message, context, _token, routerResult, decision, chart_type,
                   workspace, renderLog, child, df, tmpfs, exchange, unit, fallbackLog,
                   kernelCalls, kernelResults>>

CallClassifyChartType(r) ==
    /\ loop = r
    /\ pc[r] = "execute"
    /\ LET e == execute_tool(decision[r].tool, decision[r].arguments)
       IN  /\ e.enter
           /\ e.impl = "classify_chart_type"
           /\ Called(r, decision[r].tool, decision[r].arguments)
           /\ Entered(r, e.impl)
           /\ Suspend(r, "classify_chart_type",
                      KernelCall(Skill("playground", "chart_classifier"), _token,
                                 decision[r].arguments))
    /\ UNCHANGED <<message, context, _token, is_connected, routerResult, decision,
                   toolResults, error_msg, chart_type, response, engineCalls, workspace,
                   renderLog, child, df, tmpfs, exchange, unit, fallbackLog,
                   kernelResults>>

CallGenerateChart(r) ==
    /\ loop = r
    /\ pc[r] = "execute"
    /\ LET e == execute_tool(decision[r].tool, decision[r].arguments)
       IN  /\ e.enter
           /\ e.impl = "generate_chart"
           /\ Called(r, decision[r].tool, decision[r].arguments)
           /\ Entered(r, e.impl)
           /\ Suspend(r, "chart_classifier",
                      KernelCall(Skill("playground", "chart_classifier"), _token,
                                 decision[r].arguments))
    /\ UNCHANGED <<message, context, _token, is_connected, routerResult, decision,
                   toolResults, error_msg, chart_type, response, engineCalls, workspace,
                   renderLog, child, df, tmpfs, exchange, unit, fallbackLog,
                   kernelResults>>

(***************************************************************************)
(* The suspended tool calls answer.                                        *)
(***************************************************************************)
GenerateSqlAnswers(r) ==
    /\ loop = 0
    /\ pc[r] = "generate_sql"
    /\ \E http \in SqlGeneratorHttp :
        LET res == HttpKernel_run(http)
            out == _run_generate_sql(res)
        IN  /\ Answered(r, res)
            /\ Ended(r, out)
            /\ IF out.ok
               THEN Success(r, out.data) /\ UNCHANGED error_msg
               ELSE Caught(r, out.error) /\ UNCHANGED response
    /\ UNCHANGED <<message, context, _token, is_connected, routerResult, decision,
                   toolCalls, implCalls, chart_type, engineCalls, workspace, renderLog,
                   child, df, tmpfs, exchange, unit, fallbackLog, kernelCalls>>

ClassifierAnswers(r) ==
    /\ loop = 0
    /\ pc[r] = "classify_chart_type"
    /\ \E http \in ClassifierHttp :
        LET res == HttpKernel_run(http)
            out == _run_classify_chart_type(res, decision[r].arguments)
        IN  /\ Answered(r, res)
            /\ Ended(r, out)
            /\ IF out.ok
               THEN Success(r, out.data) /\ UNCHANGED error_msg
               ELSE Caught(r, out.error) /\ UNCHANGED response
    /\ UNCHANGED <<message, context, _token, is_connected, routerResult, decision,
                   toolCalls, implCalls, chart_type, engineCalls, workspace, renderLog,
                   child, df, tmpfs, exchange, unit, fallbackLog, kernelCalls>>

\* generate_chart, first remote call: the chart type
ChartClassifierAnswers(r) ==
    /\ loop = 0
    /\ pc[r] = "chart_classifier"
    /\ \E http \in ClassifierHttp :
        LET res == HttpKernel_run(http)
            ct == chart_type_of(res)
        IN  /\ Answered(r, res)
            /\ IF ct.ok
               THEN /\ chart_type' = [chart_type EXCEPT ![r] = ct.data]
                    /\ Suspend(r, "chart_generator",
                               KernelCall(Skill("playground", "chart_generator"), _token,
                                          [chart_type |-> ct.data,
                                           query |-> decision[r].arguments["query"],
                                           headers |-> decision[r].arguments["headers"],
                                           rows |-> decision[r].arguments["rows"]]))
                    /\ UNCHANGED <<toolResults, error_msg>>
               ELSE /\ Ended(r, Raises(ct.error))
                    /\ Caught(r, ct.error)
                    /\ UNCHANGED <<chart_type, kernelCalls>>
    /\ UNCHANGED <<message, context, _token, is_connected, routerResult, decision,
                   toolCalls, implCalls, response, engineCalls, workspace, renderLog,
                   child, df, tmpfs, exchange, unit, fallbackLog>>

\* what generate_chart_image did, in order
Logged(r, events) == renderLog' = [renderLog EXCEPT ![r] = @ \o events]

\* generate_chart, second remote call: the drawing code.  With the code in hand
\* generate_chart_image creates the workspace, writes data.py and chart.py and
\* starts the child; it then waits in subprocess.run without giving the loop
\* back.  A write that raises leaves the `with` block at once.
ChartGeneratorAnswers(r) ==
    /\ loop = 0
    /\ pc[r] = "chart_generator"
    /\ \E http \in GeneratorHttp :
        LET res == HttpKernel_run(http)
            code == chart_code_of(res)
        IN  /\ Answered(r, res)
            /\ IF ~code.ok
               THEN /\ Ended(r, Raises(code.error))
                    /\ Caught(r, code.error)
                    /\ UNCHANGED <<workspace, renderLog, child, tmpfs>>
               ELSE \E write \in WriteOutcomes :
                    IF write # ""
                    THEN /\ Logged(r, <<"mkdtemp", "write " \o write, "cleanup">>)
                         /\ workspace' =
                              [workspace EXCEPT
                                 ![r] = TemporaryDirectory_exit(Workspace(written(write)),
                                                                Raises(OSError(write)))]
                         /\ Ended(r, Raises(OSError(write)))
                         /\ Caught(r, OSError(write))
                         /\ UNCHANGED <<child, tmpfs>>
                    ELSE \E duration \in Durations, script \in Scripts,
                            d \in mkdtemp(tmpfs.dirs) :
                         /\ Logged(r, <<"mkdtemp", "write", "spawn">>)
                         /\ tmpfs' = entered(tmpfs, r, d, written(write))
                         /\ workspace' = [workspace EXCEPT
                                            ![r] = Workspace(written(write))]
                         /\ child' = [child EXCEPT ![r] = Running(duration, script)]
                         /\ pc' = [pc EXCEPT ![r] = "subprocess"]
                         /\ awaiting' = [awaiting EXCEPT ![r] = NoCall]
                         /\ loop' = r
                         /\ UNCHANGED <<toolResults, error_msg>>
    /\ UNCHANGED <<message, context, _token, is_connected, routerResult, decision,
                   toolCalls, implCalls, chart_type, response, kernelCalls, engineCalls,
                   df, exchange, unit, fallbackLog>>

\* subprocess.run returns or raises TimeoutExpired (the child has been killed
\* by then); generate_chart_image reads the artifact or raises, and the `with`
\* block is left
ExecuteChartGeneration(r) ==
    /\ loop = r
    /\ pc[r] = "subprocess"
    /\ child[r].state = "running"
    /\ LET outcome == subprocess_run(child[r].duration, child[r].script)
           image == render(outcome)
           out == _run_generate_chart(image, decision[r].arguments)
           files == saved(workspace[r].files, outcome)
       IN  /\ outcome.ended
           /\ Logged(r, <<IF outcome.timeout THEN "kill" ELSE "exit", "cleanup">>)
           /\ child' = [child EXCEPT ![r] = ChildEnded(outcome)]
           /\ workspace' = [workspace EXCEPT
                              ![r] = TemporaryDirectory_exit(Workspace(files), image)]
           /\ tmpfs' = left(tmpfs, r, outcome, image)
           /\ Ended(r, out)
           /\ IF out.ok
              THEN Success(r, out.data) /\ UNCHANGED error_msg
              ELSE Caught(r, out.error) /\ UNCHANGED response
    /\ UNCHANGED <<message, context, _token, is_connected, routerResult, decision,
                   toolCalls, implCalls, chart_type, kernelCalls, kernelResults,
                   engineCalls, df, exchange, unit, fallbackLog>>

(***************************************************************************)
(* _execute_with_retry, the except block, and _retry_sql_with_correction   *)
(***************************************************************************)
\* not a fixable execute_sql failure: the error response
ErrorResponse(r) ==
    /\ loop = r
    /\ pc[r] = "except"
    /\ ~(decision[r].tool = "execute_sql" /\ _is_fixable_sql_error(error_msg[r]))
    /\ Finish(r, _error_response(error_msg[r], decision[r].tool))
    /\ UNCHANGED <<message, context, _token, is_connected, routerResult, decision,
                   toolCalls, implCalls, toolResults, error_msg, chart_type,
                   engineCalls, workspace, renderLog, child, df, tmpfs, exchange, unit,
                   fallbackLog, kernelCalls, kernelResults>>

\* mutant: the retry always asks with the raw message
original_question_Message(message_, context_) == message_

original_question(message_, context_) == Get(context_, "original_question", message_)

\* the retry starts: execute_tool("generate_sql", {question, error_feedback})
RetrySqlWithCorrection(r) ==
    /\ loop = r
    /\ pc[r] = "except"
    /\ decision[r].tool = "execute_sql"
    /\ _is_fixable_sql_error(error_msg[r])
    /\ LET arguments == [question |-> original_question(message[r], context[r]),
                         error_feedback |-> error_msg[r]]
       IN  /\ Called(r, "generate_sql", arguments)
           /\ Entered(r, "generate_sql")
           /\ Suspend(r, "retry_generate_sql",
                      KernelCall(Skill("playground", "sql-generator"), _token,
                                 [question |-> skill_question(arguments)]))
    /\ UNCHANGED <<message, context, _token, is_connected, routerResult, decision,
                   toolResults, error_msg, chart_type, response, engineCalls, workspace,
                   renderLog, child, df, tmpfs, exchange, unit, fallbackLog,
                   kernelResults>>

\* mutant: a failed retry reports the retry's own error
retry_outcome_RetryError(error, tool, out) ==
    IF out.ok THEN AgentResponse("query_results", out.data, "execute_sql", TRUE)
    ELSE _error_response(out.error, tool)

\* how _execute_with_retry answers once the retry has ended with `out`:
\* retry_response when the retry returned one, else the error response
retry_outcome(error, tool, out) ==
    IF out.ok THEN AgentResponse("query_results", out.data, "execute_sql", TRUE)
    ELSE _error_response(error, tool)

\* the retry's generate_sql answers: on failure retry_response is None
RetryGenerateSqlAnswers(r) ==
    /\ loop = 0
    /\ pc[r] = "retry_generate_sql"
    /\ \E http \in SqlGeneratorHttp :
        LET res == HttpKernel_run(http)
            corrected == _run_generate_sql(res)
        IN  /\ Answered(r, res)
            /\ Ended(r, corrected)
            /\ IF corrected.ok
               THEN /\ pc' = [pc EXCEPT ![r] = "retry_execute_sql"]
                    /\ awaiting' = [awaiting EXCEPT ![r] = NoCall]
                    /\ loop' = r
                    /\ UNCHANGED response
               ELSE Finish(r, retry_outcome(error_msg[r], decision[r].tool, corrected))
    /\ UNCHANGED <<message, context, _token, is_connected, routerResult, decision,
                   toolCalls, implCalls, error_msg, chart_type, engineCalls, workspace,
                   renderLog, child, df, tmpfs, exchange, unit, fallbackLog,
                   kernelCalls>>

\* the argument of the second execute_sql: corrected["sql_query"]
retry_query(results) == results[Len(results)].data.sql_query

\* mutant: a failed second execute_sql goes back into the except handler
RetryExecuteSql_Again(r) ==
    /\ loop = r
    /\ pc[r] = "retry_execute_sql"
    /\ LET query == retry_query(toolResults[r])
       IN  /\ Called(r, "execute_sql", [query |-> query])
           /\ Entered(r, "execute_sql")
           /\ \E connect \in ConnectOutcomes, db \in EngineOutcomes :
                LET result == tool_execute_sql([is_connected |-> is_connected], query,
                                               connect, db)
                    out == _run_execute_sql(result)
                IN  /\ EngineRun(r, result)
                    /\ Ended(r, out)
                    /\ IF out.ok
                       THEN Finish(r, retry_outcome(error_msg[r], decision[r].tool, out))
                            /\ UNCHANGED error_msg
                       ELSE Caught(r, out.error) /\ UNCHANGED response
    /\ UNCHANGED <<message, context, _token, routerResult, decision, chart_type,
                   workspace, renderLog, child, df, tmpfs, exchange, unit, fallbackLog,
                   kernelCalls, kernelResults>>

\* the retry's execute_sql: on failure retry_response is None
RetryExecuteSql(r) ==
    /\ loop = r
    /\ pc[r] = "retry_execute_sql"
    /\ LET query == retry_query(toolResults[r])
       IN  /\ Called(r, "execute_sql", [query |-> query])
           /\ Entered(r, "execute_sql")
           /\ \E connect \in ConnectOutcomes, db \in EngineOutcomes :
                LET result == tool_execute_sql([is_connected |-> is_connected], query,
                                               connect, db)
                    out == _run_execute_sql(result)
                IN  /\ EngineRun(r, result)
                    /\ Ended(r, out)
                    /\ Finish(r, retry_outcome(error_msg[r], decision[r].tool, out))
    /\ UNCHANGED <<message, context, _token, routerResult, decision, error_msg,
                   chart_type, workspace, renderLog, child, df, tmpfs, exchange, unit,
                   fallbackLog, kernelCalls, kernelResults>>

Step(r) ==
    \/ RejectBody(r)
    \/ AgentEndpoint(r)
    \/ RouterAnswers(r)
    \/ DispatchRaises(r)
    \/ CallGenerateSql(r)
    \/ CallExecuteSql(r)
    \/ CallClassifyChartType(r)
    \/ CallGenerateChart(r)
    \/ GenerateSqlAnswers(r)
    \/ ClassifierAnswers(r)
    \/ ChartClassifierAnswers(r)
    \/ ChartGeneratorAnswers(r)
    \/ ExecuteChartGeneration(r)
    \/ ErrorResponse(r)
    \/ RetrySqlWithCorrection(r)
    \/ RetryGenerateSqlAnswers(r)
    \/ RetryExecuteSql(r)
    \/ TaskEnds(r)

\* requests are handled one after the other
Next == \E r \in Sequential : Step(r)

Spec == Init /\ [][Next]_vars

\* what the task of r does once its request is accepted, up to its response
Handling(r) ==
    \/ RouterAnswers(r)
    \/ DispatchRaises(r)
    \/ CallGenerateSql(r)
    \/ CallExecuteSql(r)
    \/ CallClassifyChartType(r)
    \/ CallGenerateChart(r)
    \/ GenerateSqlAnswers(r)
    \/ ClassifierAnswers(r)
    \/ ChartClassifierAnswers(r)
    \/ ChartGeneratorAnswers(r)
    \/ ExecuteChartGeneration(r)
    \/ ErrorResponse(r)
    \/ RetrySqlWithCorrection(r)
    \/ RetryGenerateSqlAnswers(r)
    \/ RetryExecuteSql(r)

\* the same program where every remote call returns or raises, every engine
\* call returns or raises, the child of a render ends or is killed at the
\* deadline, and the event loop runs a task that can run
SpecLive == Init /\ [][Next]_vars /\ \A r \in Sequential : WF_vars(Handling(r))

(***************************************************************************)
(* Cancellation of a request's task.  asyncio throws CancelledError into a *)
(* task only where the task is suspended; it is no Exception, so no        *)
(* `except Exception` on the way out catches it, and the task unwinds      *)
(* through the `with` blocks it is in.                                     *)
(***************************************************************************)
\* mutant: the wait for the child is a suspension point as well
CancelPoints_Subprocess ==
    {"tool_router", "generate_sql", "classify_chart_type", "chart_classifier",
     "chart_generator", "retry_generate_sql", "subprocess"}

\* where a task stands while it is suspended: in `await self.session.post(...)`
\* of one of its kernel.run calls.  subprocess.run is a blocking call, not an await.
CancelPoints ==
    {"tool_router", "generate_sql", "classify_chart_type", "chart_classifier",
     "chart_generator", "retry_generate_sql"}

\* CancelledError leaves generate_chart_image: a `with TemporaryDirectory()`
\* block the task is in removes its directory; nothing on the way ends a child
unwind(workspace_, child_) ==
    [workspace |-> IF workspace_.exists
                   THEN TemporaryDirectory_exit(workspace_, Raises("CancelledError"))
                   ELSE workspace_,
     child |-> child_]

\* the client disconnects or the server shuts down: the task of r is cancelled
\* at the await it is suspended in and unwinds without a response
Cancel(r) ==
    /\ pc[r] \in CancelPoints
    /\ LET after == unwind(workspace[r], child[r])
       IN  /\ workspace' = [workspace EXCEPT ![r] = after.workspace]
           /\ child' = [child EXCEPT ![r] = after.child]
    /\ tmpfs' = IF workspace[r].exists
                THEN [tmpfs EXCEPT !.dirs[tmpfs.temp_dir[r]] = NoDir, !.temp_dir[r] = ""]
                ELSE tmpfs
    /\ pc' = [pc EXCEPT ![r] = "cancelled"]
    /\ awaiting' = [awaiting EXCEPT ![r] = NoCall]
    /\ UNCHANGED <<loop, message, context, _token, is_connected, routerResult, decision,
                   toolCalls, implCalls, toolResults, error_msg, chart_type, response,
                   kernelCalls, kernelResults, engineCalls, renderLog, df, exchange,
                   unit, fallbackLog>>

NextCancel == \E r \in Sequential : Step(r) \/ Cancel(r)

\* the same program where a request may be cancelled while it is in flight
SpecCancel == Init /\ [][NextCancel]_vars

(***************************************************************************)
(* Two requests in flight in one event loop.  Each task runs the same code *)
(* as before; the inputs are taken from a part of those of Spec: one       *)
(* message without context, a routing reply for each tool, one reply and   *)
(* one failure of each skill and of the engine, a child that saves its     *)
(* image and one that never ends.                                          *)
(***************************************************************************)
ScenarioRouterHttp ==
    {HttpResponse(500, "skill failed: syntax error near line 1", NotJson)}
    \cup {HttpResponse(200, "", JsonDict([tool |-> t.tool, arguments |-> t.arguments])) :
            t \in {ToolCall("generate_sql", [question |-> "How many customers per country?"]),
                   ToolCall("execute_sql", [query |-> "SELECT 1"]),
                   ToolCall("classify_chart_type",
                            [query |-> "SELECT 1", headers |-> <<"1">>, rows |-> <<(<<1>>)>>]),
                   ToolCall("generate_chart",
                            [query |-> "SELECT 1", headers |-> <<"1">>, rows |-> <<(<<1>>)>>]),
                   ToolCall("summarize", EmptyArgs)}}

ScenarioSkillHttp ==
    {HttpResponse(500, "skill failed: syntax error near line 1", NotJson)}
    \cup {HttpResponse(200, "", JsonDict(d)) :
            d \in {[answer |-> "SELECT Country, COUNT(*) FROM Customers GROUP BY Country;"],
                   [chart_type |-> "pie"],
                   [chart_code |-> "df.plot(kind='bar')"]}}

ScenarioEngine ==
    {EngineRows(<<"1">>, <<(<<1>>)>>), EngineError("no such column: Countri")}

ScenarioScripts == {Script(0, "", FALSE, 0), Script(0, "", TRUE, 5), Hangs(FALSE, 0)}

\* the state of request r has come about from these inputs only
Scenario(r) ==
    /\ message[r] \in {"", "run it"}
    /\ context[r] = EmptyContext
    /\ \A i \in 1..Len(kernelResults[r]) :
         kernelResults[r][i] \in
            {HttpKernel_run(h) :
               h \in IF i = 1 THEN ScenarioRouterHttp ELSE ScenarioSkillHttp}
    /\ \A i \in 1..Len(engineCalls[r]) : \A k \in 1..Len(engineCalls[r][i].calls) :
         engineCalls[r][i].calls[k].op = "query" =>
            engineCalls[r][i].calls[k].outcome \in ScenarioEngine
    /\ \A k \in 1..Len(renderLog[r]) :
         renderLog[r][k] \in {"mkdtemp", "write", "spawn", "kill", "exit", "cleanup"}
    /\ child[r].script \in ScenarioScripts
    /\ child[r].duration \in {0, 1}

StepTwo(r) ==
    \/ RejectBody(r) /\ Scenario(r)'
    \/ AgentEndpoint(r) /\ Scenario(r)'
    \/ RouterAnswers(r) /\ Scenario(r)'
    \/ DispatchRaises(r) /\ Scenario(r)'
    \/ CallGenerateSql(r) /\ Scenario(r)'
    \/ CallExecuteSql(r) /\ Scenario(r)'
    \/ CallClassifyChartType(r) /\ Scenario(r)'
    \/ CallGenerateChart(r) /\ Scenario(r)'
    \/ GenerateSqlAnswers(r) /\ Scenario(r)'
    \/ ClassifierAnswers(r) /\ Scenario(r)'
    \/ ChartClassifierAnswers(r) /\ Scenario(r)'
    \/ ChartGeneratorAnswers(r) /\ Scenario(r)'
    \/ ExecuteChartGeneration(r) /\ Scenario(r)'
    \/ ErrorResponse(r) /\ Scenario(r)'
    \/ RetrySqlWithCorrection(r) /\ Scenario(r)'
    \/ RetryGenerateSqlAnswers(r) /\ Scenario(r)'
    \/ RetryExecuteSql(r) /\ Scenario(r)'
    \/ TaskEnds(r) /\ Scenario(r)'

NextTwo == \E r \in Requests : StepTwo(r)

SpecTwo == Init /\ [][NextTwo]_vars

\* the steps a task takes while it has the event loop, from one await to the next
Local(r) ==
    \/ DispatchRaises(r)
    \/ CallGenerateSql(r)
    \/ CallExecuteSql(r)
    \/ CallClassifyChartType(r)
    \/ CallGenerateChart(r)
    \/ ExecuteChartGeneration(r)
    \/ ErrorResponse(r)
    \/ RetrySqlWithCorrection(r)
    \/ RetryExecuteSql(r)

\* Two requests where the remote calls of request 1 need not answer: a task
\* that has the loop runs on to its next await, and for request 2 every remote
\* call returns or raises and the loop, which runs its ready tasks in the
\* order they became ready, resumes the task
SpecTwoLive ==
    /\ Init
    /\ [][NextTwo]_vars
    /\ WF_vars(Local(1) /\ Scenario(1)')
    /\ SF_vars(Handling(2) /\ Scenario(2)')

(***************************************************************************)
(* _fallback_tool_decision on its own: every message and context, two      *)
(* calls in a row.                                                         *)
(***************************************************************************)
FallbackCall ==
    /\ \E m \in Messages, c \in Contexts :
        LET call == [message |-> m, context |-> c,
                     decision |-> _fallback_tool_decision(m, c)]
        IN  fallbackLog' = IF Len(fallbackLog) < 2 THEN Append(fallbackLog, call)
                           ELSE <<fallbackLog[2], call>>
    /\ UNCHANGED <<loop, pc, message, context, _token, is_connected, awaiting,
                   routerResult, decision, toolCalls, implCalls, toolResults, error_msg,
                   chart_type, response, kernelCalls, kernelResults, engineCalls,
                   workspace, renderLog, child, df, tmpfs, exchange, unit>>

NextFallback == FallbackCall

SpecFallback == Init /\ [][NextFallback]_vars

(***************************************************************************)
(* HttpKernel.run on its own: one call and every answer to it.             *)
(***************************************************************************)
KernelRun ==
    /\ \E http \in HttpAnswers :
        exchange' = [http |-> http, result |-> HttpKernel_run(http)]
    /\ UNCHANGED <<loop, pc, message, context, _token, is_connected, awaiting,
                   routerResult, decision, toolCalls, implCalls, toolResults, error_msg,
                   chart_type, response, kernelCalls, kernelResults, engineCalls,
                   workspace, renderLog, child, df, tmpfs, unit, fallbackLog>>

NextKernel == KernelRun

SpecKernel == Init /\ [][NextKernel]_vars

(***************************************************************************)
(* _create_chart_execution_code on its own: chart.py for every generated   *)
(* code of up to MaxLines lines, run once, on an empty or a non-empty table *)
(***************************************************************************)
RunChartScript ==
    /\ ~unit.result.ran
    /\ \E chart_code \in ChartCodes, empty \in BOOLEAN :
        unit' = [chart_code |-> chart_code, empty |-> empty,
                 result |-> python(_create_chart_execution_code(chart_code), 1,
                                   <<[indent |-> 0, runs |-> TRUE]>>, FALSE, empty, <<>>)]
    /\ UNCHANGED <<loop, pc, message, context, _token, is_connected, awaiting,
                   routerResult, decision, toolCalls, implCalls, toolResults, error_msg,
                   chart_type, response, kernelCalls, kernelResults, engineCalls,
                   workspace, renderLog, child, df, tmpfs, exchange, fallbackLog>>

NextScript == RunChartScript

SpecScript == Init /\ [][NextScript]_vars

(***************************************************************************)
(* _create_data_preparation_code on its own: data.py cleans one column.    *)
(***************************************************************************)
PrepareColumn ==
    /\ \E col \in Columns : df' = [col |-> col, cleaned |-> clean_column(col)]
    /\ UNCHANGED <<loop, pc, message, context, _token, is_connected, awaiting,
                   routerResult, decision, toolCalls, implCalls, toolResults, error_msg,
                   chart_type, response, kernelCalls, kernelResults, engineCalls,
                   workspace, renderLog, child, tmpfs, exchange, unit, fallbackLog>>

NextData == PrepareColumn

SpecData == Init /\ [][NextData]_vars

(***************************************************************************)
(* Properties                                                              *)
(***************************************************************************)
CountCalls(calls, tool) == Cardinality({i \in 1..Len(calls) : calls[i].tool = tool})

RoutedTo(r, tool) == decision[r].kind = "decision" /\ decision[r].tool = tool

Handled == {"retry_generate_sql", "retry_execute_sql", "done"}

RetryKeywords == {"no such function", "syntax error", "no such column", "near"}

HasRetryKeyword(text) ==
    LET lowered == Lower(text)
    IN  \E k \in RetryKeywords : Contains(lowered, k)

FirstCallFailed(r) == Len(toolResults[r]) >= 1 /\ ~toolResults[r][1].ok

RetryStarted(r) == Len(toolCalls[r]) >= 2

RetryFailed(r) ==
    /\ pc[r] = "done"
    /\ RetryStarted(r)
    /\ ~toolResults[r][Len(toolResults[r])].ok

\* C1: a request routed to execute_sql makes at most one generate_sql call and at
\* most two execute_sql calls, and once the second execute_sql has ended, failed
\* with a retry keyword or not, the request is over: no further call follows.
C1_RetryCap ==
    \A r \in Requests :
        RoutedTo(r, "execute_sql") =>
            /\ CountCalls(toolCalls[r], "generate_sql") <= 1
            /\ CountCalls(toolCalls[r], "execute_sql") <= 2
            /\ Len(toolCalls[r]) <= 3
            /\ Len(toolResults[r]) = 3 => pc[r] = "done"

C1_Witness ==
    \E r \in Requests :
        /\ RoutedTo(r, "execute_sql")
        /\ pc[r] = "done"
        /\ Len(toolResults[r]) = 3
        /\ ~toolResults[r][3].ok
        /\ HasRetryKeyword(toolResults[r][3].error)

\* C2: the retry (generate_sql, then execute_sql) starts exactly when the failed
\* tool is execute_sql and its error text contains a retry keyword, whatever the
\* case of its letters; any other failure ends in the error response with no
\* further tool call.
C2_RetryCondition ==
    \A r \in Requests :
        (pc[r] \in Handled /\ FirstCallFailed(r)) =>
            /\ RetryStarted(r) <=> /\ toolCalls[r][1].tool = "execute_sql"
                                   /\ HasRetryKeyword(toolResults[r][1].error)
            /\ RetryStarted(r) =>
                /\ toolCalls[r][2].tool = "generate_sql"
                /\ Len(toolCalls[r]) >= 3 => toolCalls[r][3].tool = "execute_sql"
            /\ ~RetryStarted(r) =>
                /\ pc[r] = "done"
                /\ response[r].response_type = "error"
                /\ Len(toolCalls[r]) = 1

C2_Witness ==
    \E r \in Requests :
        /\ pc[r] = "retry_generate_sql"
        /\ toolCalls[r][1].tool = "execute_sql"
        /\ toolResults[r][1].error = "Syntax Error at line 1"

\* C3: when the retry fails, in its generate_sql or in its execute_sql, the
\* response is the error response of execute_sql carrying the error text of the
\* first execute_sql failure.
C3_RetryFailureReportsOriginalError ==
    \A r \in Requests :
        RetryFailed(r) =>
            /\ response[r].response_type = "error"
            /\ response[r].success = FALSE
            /\ response[r].tool_used = "execute_sql"
            /\ response[r].data = [error |-> toolResults[r][1].error]

C3_Witness ==
    \E r \in Requests :
        /\ RetryFailed(r)
        /\ Len(toolResults[r]) = 3
        /\ toolResults[r][3].error # toolResults[r][1].error

\* C4: the retry calls generate_sql with the context's original_question when the
\* context has one and with the message otherwise, and with the failed
\* execute_sql's error text as error_feedback; the second execute_sql gets exactly
\* the sql_query that call returned.
C4_RetryArguments ==
    \A r \in Requests :
        RetryStarted(r) =>
            /\ toolCalls[r][2] =
                 ToolCall("generate_sql",
                          [question |-> IF "original_question" \in DOMAIN context[r]
                                        THEN context[r]["original_question"]
                                        ELSE message[r],
                           error_feedback |-> toolResults[r][1].error])
            /\ Len(toolCalls[r]) >= 3 =>
                 /\ toolResults[r][2].ok
                 /\ toolCalls[r][3] =
                      ToolCall("execute_sql", [query |-> toolResults[r][2].data.sql_query])

C4_Witness ==
    \E r \in Requests :
        /\ Len(toolCalls[r]) = 3
        /\ "original_question" \in DOMAIN context[r]
        /\ context[r]["original_question"] # message[r]

\* the decision of r was made by _fallback_tool_decision
FallbackRouted(r) ==
    /\ pc[r] \notin {"idle", "tool_router"}
    /\ routerResult[r].type = "KernelException"

\* the tool_router call raised, or answered something that is no JSON object
RouterFailed(r) ==
    /\ pc[r] \notin {"idle", "tool_router"}
    /\ \/ routerResult[r].kind = "exc"
       \/ routerResult[r].kind = "ok" /\ routerResult[r].json.shape # "dict"

\* C5: whenever the tool_router call fails or its reply cannot be read as
\* {tool, arguments}, the decision acted on is the fallback rule's and no Error
\* response reports the routing failure.
C5_RoutingFailureFallsBack ==
    \A r \in Requests :
        RouterFailed(r) =>
            /\ decision[r] = _fallback_tool_decision(message[r], context[r])
            /\ pc[r] = "done" =>
                 response[r].data # [error |-> "Could not determine tool"]

\* C6 as stated: with query set and headers absent the fallback returns
\* execute_sql with that query, for every value of query, "" included.
C6_QuerySetAnyValue ==
    \A r \in Requests :
        (/\ FallbackRouted(r)
         /\ "query" \in DOMAIN context[r]
         /\ "headers" \notin DOMAIN context[r]) =>
            decision[r] = ToolRouterDecision("execute_sql", [query |-> context[r]["query"]])

\* C6 as amended: with a non-empty query set and headers absent the fallback
\* returns execute_sql with arguments {query: context.query}, for every message.
C6_NonEmptyQuery ==
    \A r \in Requests :
        (/\ FallbackRouted(r)
         /\ "query" \in DOMAIN context[r]
         /\ context[r]["query"] # ""
         /\ "headers" \notin DOMAIN context[r]) =>
            decision[r] = ToolRouterDecision("execute_sql", [query |-> context[r]["query"]])

C6_Witness ==
    \E r \in Requests :
        /\ FallbackRouted(r)
        /\ DOMAIN context[r] = {"query", "original_question"}
        /\ context[r]["query"] = "SELECT 1"
        /\ decision[r].tool = "execute_sql"

ChartDecision(c) ==
    ToolRouterDecision("generate_chart",
                       [query |-> IF "query" \in DOMAIN c THEN c["query"] ELSE "",
                        headers |-> c["headers"],
                        rows |-> c["rows"]])

\* C7 as stated: with headers and rows set the fallback returns generate_chart
\* with those headers and rows and the query (or ""), for every value of
\* headers, the empty sequence included.
C7_HeadersSetAnyValue ==
    \A r \in Requests :
        (/\ FallbackRouted(r)
         /\ {"headers", "rows"} \subseteq DOMAIN context[r]) =>
            decision[r] = ChartDecision(context[r])

\* C7 as amended: with non-empty headers and rows set, whether or not query is
\* set, the fallback returns generate_chart with exactly those headers and rows
\* and with query equal to context.query, or "" when query is absent.
C7_NonEmptyHeaders ==
    \A r \in Requests :
        (/\ FallbackRouted(r)
         /\ {"headers", "rows"} \subseteq DOMAIN context[r]
         /\ context[r]["headers"] # <<>>) =>
            decision[r] = ChartDecision(context[r])

C7_Witness ==
    \E r \in Requests :
        /\ FallbackRouted(r)
        /\ DOMAIN context[r] = {"headers", "rows"}
        /\ context[r]["headers"] = <<"1">>
        /\ decision[r].tool = "generate_chart"
        /\ decision[r].arguments["query"] = ""

\* C8: on an empty context the fallback returns generate_sql with
\* arguments {question: message}, for every message.
C8_EmptyContext ==
    \A r \in Requests :
        (FallbackRouted(r) /\ DOMAIN context[r] = {}) =>
            decision[r] = ToolRouterDecision("generate_sql", [question |-> message[r]])

C8_Witness ==
    \E r \in Requests :
        /\ FallbackRouted(r)
        /\ DOMAIN context[r] = {}
        /\ message[r] = "run it"
        /\ decision[r].tool = "generate_sql"

C10_UnknownCapability ==
    \A r \in Requests :
        (/\ Len(toolCalls[r]) >= 1
         /\ toolCalls[r][1].tool \notin {"generate_sql", "execute_sql",
                                         "classify_chart_type", "generate_chart"}) =>
            /\ implCalls[r] = <<>>
            /\ Len(toolCalls[r]) = 1
            /\ pc[r] \in {"except", "done"}
            /\ pc[r] = "done" =>
                 /\ response[r].response_type = "error"
                 /\ response[r].success = FALSE
                 /\ response[r].tool_used = toolCalls[r][1].tool
                 /\ response[r].data = [error |-> "Unknown tool: " \o toolCalls[r][1].tool]

C10_Witness ==
    \E r \in Requests :
        /\ pc[r] = "done"
        /\ Len(toolCalls[r]) = 1
        /\ toolCalls[r][1].tool = ""
        /\ response[r].response_type = "error"

\* the first execute_tool call of r entered this implementation
Ran(r, tool) == Len(implCalls[r]) >= 1 /\ implCalls[r][1] = tool

\* the classifier call of r failed, or its reply names no chart type
NoChartType(r) ==
    /\ Len(toolResults[r]) >= 1
    /\ \/ ~toolResults[r][1].ok
       \/ toolResults[r][1].data.chart_type = ""

\* C11: a request whose classify_chart_type implementation ran ends in a
\* successful chart_type response; when the classifier call failed or named no
\* chart type, the response still reports success with chart_type "bar".
C11_ClassifyNeverFails ==
    \A r \in Requests :
        (Ran(r, "classify_chart_type") /\ pc[r] = "done") =>
            /\ response[r].response_type = "chart_type"
            /\ response[r].success = TRUE
            /\ NoChartType(r) => response[r].data.chart_type = "bar"

\* the kernel.run calls of r that went to this skill
SkillCalls(r, name) ==
    {i \in 1..Len(kernelCalls[r]) : kernelCalls[r][i].skill = Skill("playground", name)}

\* the reply is a JSON object with a non-empty answer
HasAnswer(res) ==
    /\ res.kind = "ok"
    /\ res.json.shape = "dict"
    /\ "answer" \in DOMAIN res.json.d
    /\ res.json.d["answer"] # ""

\* the reply is a JSON object whose answer is missing or empty
NoAnswer(res) ==
    /\ res.kind = "ok"
    /\ res.json.shape = "dict"
    /\ "answer" \notin DOMAIN res.json.d \/ res.json.d["answer"] = ""

\* C12: every generate_sql invocation makes exactly one sql-generator call, the
\* only remote call besides the routing call; it returns {sql_query: answer}
\* exactly when the reply carries a non-empty answer; a reply object with a
\* missing or empty answer fails with "unable to generate SQL query" (compared
\* without regard to case), and a call that raised fails with the text raised.
C12_GenerateSqlOutcome ==
    \A r \in Requests : \A i \in 1..Len(implCalls[r]) :
        implCalls[r][i] = "generate_sql" =>
            /\ Cardinality(SkillCalls(r, "sql-generator")) = 1
            /\ Len(kernelCalls[r]) = 2
            /\ kernelCalls[r][2] =
                 KernelCall(Skill("playground", "sql-generator"), _token,
                            [question |-> skill_question(toolCalls[r][i].arguments)])
            /\ Len(toolResults[r]) >= i =>
                 LET res == kernelResults[r][2]
                     out == toolResults[r][i]
                 IN  /\ out.ok <=> HasAnswer(res)
                     /\ out.ok => out.data = [sql_query |-> res.json.d["answer"]]
                     /\ NoAnswer(res) =>
                          Lower(out.error) = Lower("unable to generate SQL query")
                     /\ res.kind = "exc" => out.error = res.text

C12_Witness ==
    \E r \in Requests :
        /\ pc[r] = "done"
        /\ implCalls[r] = <<"generate_sql">>
        /\ Len(kernelCalls[r]) = 2
        /\ NoAnswer(kernelResults[r][2])
        /\ response[r].data = [error |-> "Unable to generate SQL query"]

\* which execute_sql run of r its i-th tool implementation is
SqlRun(r, i) == Cardinality({j \in 1..i : implCalls[r][j] = "execute_sql"})

ConnectCalls(run) == {k \in 1..Len(run.calls) : run.calls[k].op = "connect"}

\* the exception the engine raised in this run, "" when it raised none
EngineRaised(run) ==
    LET last == run.calls[Len(run.calls)]
    IN  IF last.op = "connect" THEN last.outcome
        ELSE IF last.outcome.kind = "raise" THEN last.outcome.text
        ELSE ""

Did(r, event) == \E k \in 1..Len(renderLog[r]) : renderLog[r][k] = event

\* generate_chart_image of r has returned or raised
RenderOver(r) == Ran(r, "generate_chart") /\ Len(toolResults[r]) >= 1

\* C14: once generate_chart_image has returned or raised, by whatever path, the
\* workspace it created no longer exists; a workspace exists only while the
\* render waits for its child.
C14_NoWorkspaceLeft ==
    \A r \in Requests :
        /\ (RenderOver(r) /\ Did(r, "mkdtemp")) => ~workspace[r].exists
        /\ workspace[r].exists => pc[r] = "subprocess"

\* a render that timed out after its workspace held both units
C14_Witness ==
    \E r \in Requests :
        /\ RenderOver(r)
        /\ renderLog[r] = <<"mkdtemp", "write", "spawn", "kill", "cleanup">>
        /\ error_msg[r] = "Chart generation timed out"
        /\ ~workspace[r].exists

\* a render whose write of chart.py raised
C14_WitnessWrite ==
    \E r \in Requests :
        /\ RenderOver(r)
        /\ Did(r, "write chart.py")
        /\ ~workspace[r].exists

\* which of the outcomes of a render this child gives, by the claim's precedence
OutcomeKind(outcome) ==
    IF outcome.timeout THEN "Timeout"
    ELSE IF outcome.returncode # 0 THEN "ProcessFailed"
    ELSE IF ~outcome.artifact THEN "ArtifactMissing"
    ELSE "Image"

\* the errors a render can report for children of this kind
ErrorsOf(kind) == {render(c).error : c \in {c \in ChildOutcomes : OutcomeKind(c) = kind}}

\* C15: a render whose child has ended reports by this precedence: killed at
\* the deadline, the timeout error; else a non-zero exit, the process failure
\* carrying the child's stderr, artifact or not; else no artifact, the missing
\* artifact error; an image only for exit 0 within the bound with the artifact
\* there.  The error reported for one kind of failure is never one that
\* another kind reports.
C15_RenderPrecedence ==
    \A r \in Requests :
        (RenderOver(r) /\ child[r].state \in {"exited", "killed"}) =>
            LET c == child[r].outcome
                out == toolResults[r][1]
                kind == OutcomeKind(c)
            IN  /\ child[r].state = "killed" <=> kind = "Timeout"
                /\ out.ok <=> kind = "Image"
                /\ out.ok => (~c.timeout /\ c.returncode = 0 /\ c.artifact)
                /\ kind = "Timeout" => out.error = "Chart generation timed out"
                /\ kind = "ProcessFailed" =>
                     /\ Contains(out.error, "Chart generation failed: " \o c.stderr)
                     /\ Len(out.error) = Len("Error executing chart code: ")
                                        + Len("Chart generation failed: ") + Len(c.stderr)
                /\ kind = "ArtifactMissing" =>
                     Contains(out.error, "Chart image was not generated")
                /\ \A other \in {"Timeout", "ProcessFailed", "ArtifactMissing"} \ {kind} :
                     out.error \notin ErrorsOf(other)

\* the child exited 1 after it had saved the artifact, and its stderr reads
\* like another failure's message
C15_Witness ==
    \E r \in Requests :
        /\ RenderOver(r)
        /\ child[r].state = "exited"
        /\ child[r].outcome.returncode = 1
        /\ child[r].outcome.artifact
        /\ child[r].outcome.stderr = "Chart image was not generated"
        /\ pc[r] = "done"
        /\ response[r].response_type = "error"

\* the chart_generator call of r has answered; it is the third remote call of a
\* generate_chart request, after the routing and the classifier call
GeneratorAnswered(r) == Ran(r, "generate_chart") /\ Len(kernelResults[r]) = 3

\* the call returned a JSON object without chart code
NoChartCode(res) ==
    /\ res.kind = "ok"
    /\ res.json.shape = "dict"
    /\ "chart_code" \notin DOMAIN res.json.d \/ res.json.d["chart_code"] = ""

\* the error generate_chart of r raised, "" while it has raised none
RenderError(r) == IF Len(toolResults[r]) >= 1 THEN toolResults[r][1].error ELSE ""

\* nothing of the sandbox was touched and the request ends in an error
NoRender(r) ==
    /\ renderLog[r] = <<>>
    /\ ~workspace[r].exists
    /\ child[r].state = "none"
    /\ RenderError(r) # ""
    /\ pc[r] = "done" => response[r].response_type = "error"

\* C16 as stated: when the chart_generator call returns no chart code the
\* render fails with "chart generation skill not available" (compared without
\* regard to case) and touches no workspace and no child.
C16_NoCodeSkillNotAvailable ==
    \A r \in Requests :
        (GeneratorAnswered(r) /\ NoChartCode(kernelResults[r][3])) =>
            /\ Lower(RenderError(r)) = Lower("chart generation skill not available")
            /\ NoRender(r)

\* C16, amended: when the chart_generator call returns a reply without chart
\* code the render fails with "Failed to generate chart code"; when the call
\* raises KernelException it fails with "Chart generation skill not available";
\* either way no workspace is created, no child is started and no image is
\* returned.
C16_NoCodeNoRender ==
    \A r \in Requests :
        GeneratorAnswered(r) =>
            LET res == kernelResults[r][3]
            IN  /\ NoChartCode(res) =>
                     /\ RenderError(r) = "Failed to generate chart code"
                     /\ NoRender(r)
                /\ res.type = "KernelException" =>
                     /\ RenderError(r) = "Chart generation skill not available"
                     /\ NoRender(r)

C16_Witness ==
    \E r \in Requests :
        /\ GeneratorAnswered(r)
        /\ NoChartCode(kernelResults[r][3])
        /\ pc[r] = "done"
        /\ response[r].data = [error |-> "Failed to generate chart code"]

Converts(cell) == cell.kind = "text" /\ IsDigits(cell.s)

Converted(col) == {i \in 1..Len(col) : Converts(col[i])}

NonMissing(col) == {i \in 1..Len(col) : col[i].kind # "missing"}

\* the column was replaced by its numeric coercion
Adopted == \E i \in 1..Len(df.col) : df.cleaned[i].kind = "number"

\* C17 as stated: a text column is replaced by its numeric coercion exactly
\* when strictly more than half of its non-missing values convert.
C17_ShareOfNonMissing ==
    Adopted <=> 2 * Cardinality(Converted(df.col)) > Cardinality(NonMissing(df.col))

\* C17, amended: a text column is replaced by its numeric coercion exactly when
\* strictly more than half of all its values, the missing ones counted, convert;
\* with exactly half or fewer it is left as it was; in an adopted column a value
\* that converts becomes its number and every other value, missing or not, 0.
C17_ShareOfAllValues ==
    /\ Len(df.cleaned) = Len(df.col)
    /\ Adopted <=> 2 * Cardinality(Converted(df.col)) > Len(df.col)
    /\ ~Adopted => df.cleaned = df.col
    /\ Adopted =>
         \A i \in 1..Len(df.col) :
            /\ df.cleaned[i].kind = "number"
            /\ i \notin Converted(df.col) => df.cleaned[i].n = 0
            /\ df.col[i] = Text("23") => df.cleaned[i].n = 23

\* three of four values convert; the text that does not and nothing else is 0
C17_Witness ==
    /\ df.col = <<Text("23"), Text("23"), Text("4x"), Text("23")>>
    /\ df.cleaned = <<Number(23), Number(23), Number(0), Number(23)>>

\* the one non-missing value converts, but it is one value of three
C17_WitnessMissing ==
    /\ df.col = <<Text("23"), Missing, Missing>>
    /\ df.cleaned = df.col

\* the response type the claim gives each tool
TypeOfTool ==
    [generate_sql |-> "sql_query", execute_sql |-> "query_results",
     classify_chart_type |-> "chart_type", generate_chart |-> "chart_image"]

\* the tool call of r that ended last, and how it ended
LastTool(r) == toolCalls[r][Len(toolResults[r])].tool

LastResult(r) == toolResults[r][Len(toolResults[r])]

\* C18: every response returned has success true exactly when its type is not
\* error; a successful one carries the data of the last tool call, has the
\* type that belongs to that tool and names it in tool_used; a failed one has
\* data {error: message}.
C18_ResponseShape ==
    \A r \in Requests :
        pc[r] = "done" =>
            LET resp == response[r]
            IN  /\ resp.response_type \in ToolResponseType
                /\ resp.success <=> resp.response_type # "error"
                /\ resp.success =>
                     /\ Len(toolResults[r]) >= 1
                     /\ LastResult(r).ok
                     /\ resp.data = LastResult(r).data
                     /\ resp.tool_used = LastTool(r)
                     /\ resp.tool_used \in DOMAIN TypeOfTool
                     /\ resp.response_type = TypeOfTool[resp.tool_used]
                /\ ~resp.success =>
                     /\ DOMAIN resp.data = {"error"}
                     /\ Len(toolResults[r]) >= 1 =>
                          resp.data["error"] = toolResults[r][1].error

\* a retried request that succeeded: the data is the second execute_sql's
C18_Witness ==
    \E r \in Requests :
        /\ pc[r] = "done"
        /\ Len(toolResults[r]) = 3
        /\ response[r].success
        /\ response[r].response_type = "query_results"
        /\ response[r].tool_used = "execute_sql"

C18_WitnessChart ==
    \E r \in Requests :
        /\ pc[r] = "done"
        /\ response[r].success
        /\ response[r].response_type = "chart_image"

\* the request of r met a failure that no retry made good: its body was
\* rejected, no decision came back from the routing, or its last tool call failed
FailureMet(r) ==
    \/ kernelCalls[r] = <<>>
    \/ decision[r].kind # "decision"
    \/ Len(toolResults[r]) >= 1 /\ ~LastResult(r).ok

\* C19: no task of agent_endpoint ends by an exception; every task that ends
\* returns a typed response, and one that met a failure in parsing, routing,
\* dispatching, executing or retrying returns the error response, success false.
C19_NoFailureEscapes ==
    \A r \in Requests :
        /\ pc[r] # "raised"
        /\ pc[r] = "done" =>
             /\ response[r].response_type \in ToolResponseType
             /\ FailureMet(r) =>
                  /\ response[r].response_type = "error"
                  /\ response[r].success = FALSE
                  /\ DOMAIN response[r].data = {"error"}

\* a body that is valid JSON but no object: AgentRequest(**body) raises TypeError
C19_Witness ==
    \E r \in Requests :
        /\ pc[r] = "done"
        /\ kernelCalls[r] = <<>>
        /\ response[r].success = FALSE
        /\ response[r].data =
             [error |-> "service.models.AgentRequest() argument after ** must be a mapping, not list"]

\* the retry itself failed
C19_WitnessRetry ==
    \E r \in Requests :
        /\ RetryFailed(r)
        /\ Len(toolResults[r]) = 3
        /\ response[r].success = FALSE

\* the response of r is set by this step
Responds(r) == response'[r] # response[r] /\ response'[r] # NoResponse

\* C20: a request that has been accepted always reaches its end, whatever the
\* remote calls, the engine and the child answer; its response is set in one
\* step only, the step that ends its task, and is not set again before the
\* task is gone.
C20_TerminatesWithOneResponse ==
    /\ \A r \in Sequential : (pc[r] \notin {"idle", "done"}) ~> (pc[r] = "done")
    /\ [][\A r \in Requests :
            /\ Responds(r) => (response[r] = NoResponse /\ pc[r] # "done" /\ pc'[r] = "done")
            /\ (pc[r] # "done" /\ pc'[r] = "done") => Responds(r)]_vars

\* a render whose child never ends by itself was stopped and the request answered
C20_Witness ==
    \E r \in Requests :
        /\ pc[r] = "done"
        /\ child[r].state = "killed"
        /\ renderLog[r] = <<"mkdtemp", "write", "spawn", "kill", "cleanup">>
        /\ response[r].response_type = "error"

\* C21: a request can be cancelled only while its task is suspended in a
\* remote call, and at each of those points it has no child running and no
\* workspace; so a task that has unwound from a cancellation leaves no child
\* running and no workspace behind.
C21_CancelledLeavesNothing ==
    \A r \in Requests :
        /\ pc[r] \in CancelPoints =>
             (child[r].state # "running" /\ ~workspace[r].exists)
        /\ pc[r] = "cancelled" =>
             (child[r].state # "running" /\ ~workspace[r].exists)

\* cancelled in the chart pipeline at its last await, the chart_generator call
C21_Witness ==
    \E r \in Requests :
        /\ pc[r] = "cancelled"
        /\ Ran(r, "generate_chart")
        /\ Len(kernelCalls[r]) = 3
        /\ Len(kernelResults[r]) = 2
        /\ response[r] = NoResponse

\* request r is waiting for a remote skill call to answer
Waiting(r) == pc[r] \in CancelPoints

\* C22: while one request waits for a remote call, the loop is not held by it
\* and the other request can take its next step, be it its arrival, the answer
\* of its own remote call or its dispatch; and request 2, once accepted, always
\* reaches its response although the remote calls of request 1 may never answer.
C22_WaitingDoesNotBlock ==
    /\ [](\A r \in Requests : \A q \in Requests \ {r} :
            (Waiting(r) /\ pc[q] # "done") =>
                /\ loop # r
                /\ loop \in {0, q} =>
                     ENABLED ((AgentEndpoint(q) \/ Handling(q)) /\ Scenario(q)'))
    /\ (pc[2] \notin {"idle", "done"}) ~> (pc[2] = "done")

\* request 2 arrived after request 1 (the token set last is its own) and has
\* got its result while request 1 is still waiting for its routing call
C22_Witness ==
    /\ pc[1] = "tool_router"
    /\ _token = Tokens[2]
    /\ pc[2] = "done"
    /\ Len(toolResults[2]) >= 1
    /\ response[2].success

\* the render of r is inside its `with tempfile.TemporaryDirectory()` block
HasDir(r) == tmpfs.temp_dir[r] # ""

\* C23: a render has a directory exactly while its workspace exists; that
\* directory is no other render's and none that another program has under the
\* temp root, every file in it was written by this render or its child, every
\* file read on behalf of a render was written by it, the image a render
\* returns was saved by its own child, and no directory of anyone else is
\* changed.  All images go by one name, so this rests on the directories alone.
C23_WorkspacesDisjoint ==
    /\ \A r \in Requests :
        /\ workspace[r].exists <=> HasDir(r)
        /\ HasDir(r) =>
             LET dir == tmpfs.dirs[tmpfs.temp_dir[r]]
             IN  /\ dir.exists
                 /\ \A f \in dir.files : f.by = r
                 /\ {f.name : f \in dir.files} = workspace[r].files
                 /\ \A q \in Requests \ {r} : tmpfs.temp_dir[q] # tmpfs.temp_dir[r]
        /\ \A f \in tmpfs.reads[r] : f.by = r
        /\ (pc[r] = "done" /\ response[r].response_type = "chart_image") =>
             File("chart_uuid.png", r) \in tmpfs.reads[r]
    /\ \A d \in TempDirs :
        (tmpfs.dirs[d].exists /\ \A r \in Requests : tmpfs.temp_dir[r] # d) =>
            tmpfs.dirs[d] = Foreign

\* both requests have rendered the same (query, headers, rows) and each has
\* returned its own image, next to a directory of another program that holds
\* an image of the same name
C23_Witness ==
    /\ \A r \in Requests :
        /\ pc[r] = "done"
        /\ response[r].response_type = "chart_image"
        /\ tmpfs.reads[r] =
             {File("data.py", r), File("chart.py", r), File("chart_uuid.png", r)}
    /\ decision[1].arguments = decision[2].arguments
    /\ File("chart_uuid.png", 0) \in tmpfs.dirs["tmpa"].files

\* C24: every answer with a status outside 200..299, the 3xx ones included,
\* raises KernelException carrying that status and the body text, and what
\* is returned as output comes from a 2xx answer only.
C24_NonSuccessRaises ==
    exchange.http.kind = "http" =>
        /\ exchange.http.status \notin 200..299 =>
             /\ exchange.result.kind = "exc"
             /\ exchange.result.type = "KernelException"
             /\ exchange.result.status = exchange.http.status
             /\ exchange.result.text = exchange.http.text
        /\ exchange.result.kind = "ok" => exchange.http.status \in 200..299

\* the classifier call of the chart pipeline of r has answered
ClassifierAnswered(r) == Ran(r, "generate_chart") /\ Len(kernelResults[r]) >= 2

\* the call failed, or returned a reply from which no chart type can be read
Unclassified(res) ==
    \/ res.kind # "ok"
    \/ res.json.shape # "dict"
    \/ "chart_type" \notin DOMAIN res.json.d
    \/ res.json.d["chart_type"] = ""

\* C25: in the chart pipeline every failure of the classifier call, and every
\* reply from which no chart type can be read, is followed by the
\* chart_generator call with chart_type "bar"; the render does not fail
\* because of the classification.
C25_ClassifierFailureGivesBar ==
    \A r \in Requests :
        (ClassifierAnswered(r) /\ Unclassified(kernelResults[r][2])) =>
            /\ Len(kernelCalls[r]) >= 3
            /\ kernelCalls[r][3].skill = Skill("playground", "chart_generator")
            /\ kernelCalls[r][3].input.chart_type = "bar"
            /\ chart_type[r] = "bar"

\* the lines of the generated code, in order
AllCode(chart_code) == [k \in 1..Len(chart_code) |-> [what |-> "code", n |-> k]]

\* C26: on an empty table chart.py runs no line of the generated code and
\* draws only the placeholder; on a non-empty table it runs every line of the
\* generated code, in order, and no placeholder; in both cases savefig runs
\* last.  This holds for generated code of any number of lines.
C26_BranchOnEmptiness ==
    unit.result.ran =>
        unit.result.executed =
            (IF unit.empty
             THEN <<[what |-> "placeholder", n |-> 0]>>
             ELSE AllCode(unit.chart_code))
            \o <<[what |-> "savefig", n |-> 0]>>

\* C27: the deadline is the parent's: a render that ends with the timeout
\* failure has killed its child, so the child is not running when the render
\* returns, and no render returns while its child still runs; the child is
\* killed exactly when it had not exited within timeout_seconds.
C27_TimeoutKillsChild ==
    \A r \in Requests :
        /\ (RenderOver(r) /\ RenderError(r) = "Chart generation timed out") =>
             /\ child[r].state = "killed"
             /\ child[r].outcome.timeout
             /\ Did(r, "kill")
        /\ RenderOver(r) => child[r].state # "running"
        /\ Did(r, "kill") => child[r].state = "killed"

\* the child saved the image and then hung; the render ended with the timeout
C27_Witness ==
    \E r \in Requests :
        /\ pc[r] = "done"
        /\ RenderError(r) = "Chart generation timed out"
        /\ child[r].state = "killed"
        /\ child[r].outcome.artifact
        /\ response[r].response_type = "error"

\* C28: while the render child of one request runs, that request does not
\* hold the loop, and the other request, when it is in flight, can take its
\* next step.
C28_ChildDoesNotBlock ==
    \A r \in Requests : \A q \in Requests \ {r} :
        child[r].state = "running" =>
            /\ loop # r
            /\ pc[q] \notin {"idle", "done"} => ENABLED (Handling(q) /\ Scenario(q)')

\* C29: with both requests in flight under different tokens, every remote call
\* issued for a request, the routing call and every skill call of its tools,
\* a retry's included, carries that request's own token.
C29_OwnToken ==
    \A r \in Requests : \A i \in 1..Len(kernelCalls[r]) :
        kernelCalls[r][i].token = Tokens[r]

\* the least k with 3 * k >= n
CeilThird(n) == CHOOSE k \in 0..n : 3 * k >= n /\ 3 * (k - 1) < n

\* generate_chart of r returned an image
ChartReturned(r) == RenderOver(r) /\ toolResults[r][1].ok

\* C30: for an image of n bytes the estimate encoded_length * 3/4 that
\* generate_chart reports is 3 * ceil(n / 3), so it is at least n and at most
\* n + 2; image_size_kb is that estimate divided by 1024, and rows_count is
\* the number of rows passed in.
C30_SizeEstimate ==
    \A r \in Requests :
        ChartReturned(r) =>
            LET n == child[r].outcome.size
                out == toolResults[r][1].data
                estimate == 3 * CeilThird(n)
            IN  /\ 4 * estimate = out.chart_image.encoded_length * 3
                /\ estimate >= n
                /\ estimate <= n + 2
                /\ out.image_size_kb.num * 1024 = estimate * out.image_size_kb.den
                /\ out.rows_count = Len(decision[r].arguments["rows"])

\* an image of 4 bytes: 8 characters, estimated at 6 bytes
C30_Witness ==
    \E r \in Requests :
        /\ ChartReturned(r)
        /\ pc[r] = "done"
        /\ response[r].success
        /\ child[r].outcome.size = 4
        /\ response[r].data.chart_image.encoded_length = 8
        /\ response[r].data.image_size_kb.num * 1024 = 6 * response[r].data.image_size_kb.den
        /\ response[r].data.rows_count = Len(decision[r].arguments["rows"])
        /\ response[r].data.rows_count >= 1

====
